---- MODULE Spec2Model ----
(***************************************************************************)
(* Lead status transition engine of the onboarding dashboard backend:      *)
(* the rule table, the transition executor, the HTTP handlers and scripts  *)
(* that write leads and their status history, and the request-scoped       *)
(* database session (commit on success, rollback on any exception).        *)
(*                                                                         *)
(* Every handler is one action: it runs against a working copy of the      *)
(* database (the session), and get_db commits the copy or discards it.     *)
(***************************************************************************)
EXTENDS Bags, FiniteSets, Integers, Sequences, TLC

VARIABLES
    db,      \* committed database: users, leads, history, events, audit, id counters
    sess,    \* the session's view when the last request left its handler (before commit/rollback)
    last,    \* the last request: its handler, its response, and the lead and target status
             \* it requested when it got past authorization and input validation
    now,     \* wall clock (datetime.utcnow / func.now)
    cap,     \* number of audit rows (committed requests) up to which requests are explored
    kpi,     \* the KPI query the last request made and the result it returned, if it made one
    txn      \* requests in flight on sessions of their own: what each has loaded so far

vars == <<db, sess, last, now, cap, kpi, txn>>

----------------------------------------------------------------------------
\* Bounds of the exploration

MaxTime == 1
MaxLeads == 2
CapMain == 1
CapLedger == 2
CapFunnel == 6
CapFaults == 1
CapAdmin == 2
CapExecutor == 3
CapEvents == 6
CapJourney == 7
CapKpi == 3
CapRates == 3
CapRace == 2
MaxRequests == 2
CapTime == 2
CapDropOffs == 3
CapAccess == 2

----------------------------------------------------------------------------
\* models/lead.py: LeadStatus

NEW_COLD == "new_cold"
CALL_SCHEDULED == "call_scheduled"
CONTACT_ESTABLISHED == "contact_established"
FIRST_APPT_PENDING == "first_appt_pending"
FIRST_APPT_SCHEDULED == "first_appt_scheduled"
FIRST_APPT_COMPLETED == "first_appt_completed"
SECOND_APPT_SCHEDULED == "second_appt_scheduled"
SECOND_APPT_COMPLETED == "second_appt_completed"
CLOSED_WON == "closed_won"
CLOSED_LOST == "closed_lost"

LeadStatus ==
    { NEW_COLD, CALL_SCHEDULED, CONTACT_ESTABLISHED, FIRST_APPT_PENDING,
      FIRST_APPT_SCHEDULED, FIRST_APPT_COMPLETED, SECOND_APPT_SCHEDULED,
      SECOND_APPT_COMPLETED, CLOSED_WON, CLOSED_LOST }

\* models/events.py
CallOutcome == {"answered", "no_answer", "declined", "busy", "voicemail", "wrong_number"}
AppointmentType == {"first", "second"}
AppointmentResult == {"set", "cancelled", "no_show", "completed"}

\* models/user.py: the users table at start-up: a starter and the teamleiter
\* of team 1, an admin without team
UserRole == <<"starter", "teamleiter", "admin">>
UserTeam == <<1, 1, 0>>
AllUsers == 1..3

NoTeam == 0
NoLead == 0
NoUser == 0
NoTime == -1
InvalidIso == -2
NoStatus == "none"
NoReason == "none"
NoQuery == [op |-> "none"]

Times == 0..MaxTime
LeadNames == {"a", "b"}
LegacyName == "legacy"

----------------------------------------------------------------------------
\* services/lead_status.py

\* The rule table with a closed lead reopened: CLOSED_LOST may go back to
\* CALL_SCHEDULED.
ALLOWED_TRANSITIONS_reopen ==
    [ s \in LeadStatus |->
        CASE s = NEW_COLD -> {CALL_SCHEDULED, CONTACT_ESTABLISHED, CLOSED_LOST}
          [] s = CALL_SCHEDULED -> {CALL_SCHEDULED, CONTACT_ESTABLISHED, CLOSED_LOST}
          [] s = CONTACT_ESTABLISHED ->
                {FIRST_APPT_PENDING, FIRST_APPT_SCHEDULED, CALL_SCHEDULED, CLOSED_LOST}
          [] s = FIRST_APPT_PENDING -> {FIRST_APPT_SCHEDULED, CALL_SCHEDULED, CLOSED_LOST}
          [] s = FIRST_APPT_SCHEDULED ->
                {FIRST_APPT_SCHEDULED, FIRST_APPT_COMPLETED, CLOSED_LOST}
          [] s = FIRST_APPT_COMPLETED -> {SECOND_APPT_SCHEDULED, CALL_SCHEDULED, CLOSED_LOST}
          [] s = SECOND_APPT_SCHEDULED ->
                {SECOND_APPT_SCHEDULED, SECOND_APPT_COMPLETED, CLOSED_LOST}
          [] s = SECOND_APPT_COMPLETED -> {CLOSED_WON, CLOSED_LOST}
          [] s = CLOSED_WON -> {CLOSED_WON}
          [] s = CLOSED_LOST -> {CLOSED_LOST, CALL_SCHEDULED} ]

\* The rule table with a stage skipped: CONTACT_ESTABLISHED may go straight
\* to SECOND_APPT_SCHEDULED.
ALLOWED_TRANSITIONS_skip ==
    [ s \in LeadStatus |->
        CASE s = NEW_COLD -> {CALL_SCHEDULED, CONTACT_ESTABLISHED, CLOSED_LOST}
          [] s = CALL_SCHEDULED -> {CALL_SCHEDULED, CONTACT_ESTABLISHED, CLOSED_LOST}
          [] s = CONTACT_ESTABLISHED ->
                {FIRST_APPT_PENDING, FIRST_APPT_SCHEDULED, SECOND_APPT_SCHEDULED,
                 CALL_SCHEDULED, CLOSED_LOST}
          [] s = FIRST_APPT_PENDING -> {FIRST_APPT_SCHEDULED, CALL_SCHEDULED, CLOSED_LOST}
          [] s = FIRST_APPT_SCHEDULED ->
                {FIRST_APPT_SCHEDULED, FIRST_APPT_COMPLETED, CLOSED_LOST}
          [] s = FIRST_APPT_COMPLETED -> {SECOND_APPT_SCHEDULED, CALL_SCHEDULED, CLOSED_LOST}
          [] s = SECOND_APPT_SCHEDULED ->
                {SECOND_APPT_SCHEDULED, SECOND_APPT_COMPLETED, CLOSED_LOST}
          [] s = SECOND_APPT_COMPLETED -> {CLOSED_WON, CLOSED_LOST}
          [] s = CLOSED_WON -> {CLOSED_WON}
          [] s = CLOSED_LOST -> {CLOSED_LOST} ]

\* The rule table without the edge into FIRST_APPT_PENDING.
ALLOWED_TRANSITIONS_no_pending ==
    [ s \in LeadStatus |->
        CASE s = NEW_COLD -> {CALL_SCHEDULED, CONTACT_ESTABLISHED, CLOSED_LOST}
          [] s = CALL_SCHEDULED -> {CALL_SCHEDULED, CONTACT_ESTABLISHED, CLOSED_LOST}
          [] s = CONTACT_ESTABLISHED ->
                {FIRST_APPT_SCHEDULED, CALL_SCHEDULED, CLOSED_LOST}
          [] s = FIRST_APPT_PENDING -> {FIRST_APPT_SCHEDULED, CALL_SCHEDULED, CLOSED_LOST}
          [] s = FIRST_APPT_SCHEDULED ->
                {FIRST_APPT_SCHEDULED, FIRST_APPT_COMPLETED, CLOSED_LOST}
          [] s = FIRST_APPT_COMPLETED -> {SECOND_APPT_SCHEDULED, CALL_SCHEDULED, CLOSED_LOST}
          [] s = SECOND_APPT_SCHEDULED ->
                {SECOND_APPT_SCHEDULED, SECOND_APPT_COMPLETED, CLOSED_LOST}
          [] s = SECOND_APPT_COMPLETED -> {CLOSED_WON, CLOSED_LOST}
          [] s = CLOSED_WON -> {CLOSED_WON}
          [] s = CLOSED_LOST -> {CLOSED_LOST} ]

ALLOWED_TRANSITIONS ==
    [ s \in LeadStatus |->
        CASE s = NEW_COLD -> {CALL_SCHEDULED, CONTACT_ESTABLISHED, CLOSED_LOST}
          [] s = CALL_SCHEDULED -> {CALL_SCHEDULED, CONTACT_ESTABLISHED, CLOSED_LOST}
          [] s = CONTACT_ESTABLISHED ->
                {FIRST_APPT_PENDING, FIRST_APPT_SCHEDULED, CALL_SCHEDULED, CLOSED_LOST}
          [] s = FIRST_APPT_PENDING -> {FIRST_APPT_SCHEDULED, CALL_SCHEDULED, CLOSED_LOST}
          [] s = FIRST_APPT_SCHEDULED ->
                {FIRST_APPT_SCHEDULED, FIRST_APPT_COMPLETED, CLOSED_LOST}
          [] s = FIRST_APPT_COMPLETED -> {SECOND_APPT_SCHEDULED, CALL_SCHEDULED, CLOSED_LOST}
          [] s = SECOND_APPT_SCHEDULED ->
                {SECOND_APPT_SCHEDULED, SECOND_APPT_COMPLETED, CLOSED_LOST}
          [] s = SECOND_APPT_COMPLETED -> {CLOSED_WON, CLOSED_LOST}
          [] s = CLOSED_WON -> {CLOSED_WON}
          [] s = CLOSED_LOST -> {CLOSED_LOST} ]

\* is_transition_allowed without the self-transition shortcut.
is_transition_allowed_no_self(current, target) ==
    target \in ALLOWED_TRANSITIONS[current]

is_transition_allowed(current, target) ==
    IF current = target THEN TRUE ELSE target \in ALLOWED_TRANSITIONS[current]

\* Storage faults a request can meet: none; the flush inside
\* apply_status_transition failing before any statement, or after the UPDATE
\* of the lead row and before the INSERT of the history row; the flush of
\* the audit row failing (history already flushed); the commit failing.
Faults == {"none", "flush0", "flush1", "audit", "commit"}

\* Result of a step inside a handler: the session after it and what it raised.
Ok(s) == [s |-> s, raised |-> "none"]
Raise(s, e) == [s |-> s, raised |-> e]

\* The error message naming only the requested status.
TransitionError_without_from(from_status, to_status) ==
    <<"Transition", "->", to_status, "not allowed">>

\* f"Transition {lead.current_status.value} -> {to_status.value} not allowed"
TransitionError(from_status, to_status) ==
    <<"Transition", from_status, "->", to_status, "not allowed">>

\* raise ValueError(message)
RaiseValueError(s, message) == [s |-> s, raised |-> "ValueError", detail |-> message]

\* The executor validating after it has written: the history row and the
\* lead fields are in the session when the ValueError is raised.
apply_status_transition_write_first(s, lead_id, to_status, changed_by_user_id, reason, changed_at, fault) ==
    LET lead == s.leads[lead_id]
        event_time == IF changed_at # NoTime THEN changed_at ELSE now
        history == [ id |-> s.nextHist,
                     lead_id |-> lead_id,
                     changed_by_user_id |-> changed_by_user_id,
                     from_status |-> lead.current_status,
                     to_status |-> to_status,
                     changed_at |-> event_time,
                     reason |-> reason ]
        lead1 == IF lead.current_status # to_status
                 THEN [lead EXCEPT !.current_status = to_status,
                                   !.status_updated_at = event_time]
                 ELSE lead
        lead2 == [lead1 EXCEPT !.last_activity_at = event_time]
        sLead == [s EXCEPT !.leads[lead_id] = lead2]
        sBoth == [sLead EXCEPT !.history = Append(@, history), !.nextHist = @ + 1]
    IN  IF ~is_transition_allowed(lead.current_status, to_status)
        THEN RaiseValueError(sBoth, TransitionError(lead.current_status, to_status))
        ELSE IF fault = "flush0" THEN Raise(s, "DBError")
        ELSE IF fault = "flush1" THEN Raise(sLead, "DBError")
        ELSE Ok(sBoth)

\* The executor touching last_activity_at only when the status changes.
apply_status_transition_activity_on_change(s, lead_id, to_status, changed_by_user_id, reason, changed_at, fault) ==
    LET lead == s.leads[lead_id]
        event_time == IF changed_at # NoTime THEN changed_at ELSE now
        history == [ id |-> s.nextHist,
                     lead_id |-> lead_id,
                     changed_by_user_id |-> changed_by_user_id,
                     from_status |-> lead.current_status,
                     to_status |-> to_status,
                     changed_at |-> event_time,
                     reason |-> reason ]
        lead1 == IF lead.current_status # to_status
                 THEN [lead EXCEPT !.current_status = to_status,
                                   !.status_updated_at = event_time,
                                   !.last_activity_at = event_time]
                 ELSE lead
        sLead == [s EXCEPT !.leads[lead_id] = lead1]
        sBoth == [sLead EXCEPT !.history = Append(@, history), !.nextHist = @ + 1]
    IN  IF ~is_transition_allowed(lead.current_status, to_status)
        THEN RaiseValueError(s, TransitionError(lead.current_status, to_status))
        ELSE IF fault = "flush0" THEN Raise(s, "DBError")
        ELSE IF fault = "flush1" THEN Raise(sLead, "DBError")
        ELSE Ok(sBoth)

\* The executor stamping status_updated_at on every call, self-transitions
\* included.
apply_status_transition_always_stamp(s, lead_id, to_status, changed_by_user_id, reason, changed_at, fault) ==
    LET lead == s.leads[lead_id]
        event_time == IF changed_at # NoTime THEN changed_at ELSE now
        history == [ id |-> s.nextHist,
                     lead_id |-> lead_id,
                     changed_by_user_id |-> changed_by_user_id,
                     from_status |-> lead.current_status,
                     to_status |-> to_status,
                     changed_at |-> event_time,
                     reason |-> reason ]
        lead1 == [lead EXCEPT !.current_status = to_status,
                              !.status_updated_at = event_time]
        lead2 == [lead1 EXCEPT !.last_activity_at = event_time]
        sLead == [s EXCEPT !.leads[lead_id] = lead2]
        sBoth == [sLead EXCEPT !.history = Append(@, history), !.nextHist = @ + 1]
    IN  IF ~is_transition_allowed(lead.current_status, to_status)
        THEN RaiseValueError(s, TransitionError(lead.current_status, to_status))
        ELSE IF fault = "flush0" THEN Raise(s, "DBError")
        ELSE IF fault = "flush1" THEN Raise(sLead, "DBError")
        ELSE Ok(sBoth)

\* The executor with a temporal-ordering precondition: an effective time
\* before the lead's creation is refused.
apply_status_transition_rejects_backdated(s, lead_id, to_status, changed_by_user_id, reason, changed_at, fault) ==
    LET lead == s.leads[lead_id]
        event_time == IF changed_at # NoTime THEN changed_at ELSE now
        history == [ id |-> s.nextHist,
                     lead_id |-> lead_id,
                     changed_by_user_id |-> changed_by_user_id,
                     from_status |-> lead.current_status,
                     to_status |-> to_status,
                     changed_at |-> event_time,
                     reason |-> reason ]
        lead1 == IF lead.current_status # to_status
                 THEN [lead EXCEPT !.current_status = to_status,
                                   !.status_updated_at = event_time]
                 ELSE lead
        lead2 == [lead1 EXCEPT !.last_activity_at = event_time]
        sLead == [s EXCEPT !.leads[lead_id] = lead2]
        sBoth == [sLead EXCEPT !.history = Append(@, history), !.nextHist = @ + 1]
    IN  IF ~is_transition_allowed(lead.current_status, to_status) \/ event_time < lead.created_at
        THEN RaiseValueError(s, TransitionError(lead.current_status, to_status))
        ELSE IF fault = "flush0" THEN Raise(s, "DBError")
        ELSE IF fault = "flush1" THEN Raise(sLead, "DBError")
        ELSE Ok(sBoth)

\* apply_status_transition without the validation of the transition.
apply_status_transition_unchecked(s, lead_id, to_status, changed_by_user_id, reason, changed_at, fault) ==
    LET lead == s.leads[lead_id]
        event_time == IF changed_at # NoTime THEN changed_at ELSE now
        history == [ id |-> s.nextHist,
                     lead_id |-> lead_id,
                     changed_by_user_id |-> changed_by_user_id,
                     from_status |-> lead.current_status,
                     to_status |-> to_status,
                     changed_at |-> event_time,
                     reason |-> reason ]
        lead1 == IF lead.current_status # to_status
                 THEN [lead EXCEPT !.current_status = to_status,
                                   !.status_updated_at = event_time]
                 ELSE lead
        lead2 == [lead1 EXCEPT !.last_activity_at = event_time]
        sLead == [s EXCEPT !.leads[lead_id] = lead2]
        sBoth == [sLead EXCEPT !.history = Append(@, history), !.nextHist = @ + 1]
    IN  IF FALSE
        THEN RaiseValueError(s, TransitionError(lead.current_status, to_status))
        ELSE IF fault = "flush0" THEN Raise(s, "DBError")
        ELSE IF fault = "flush1" THEN Raise(sLead, "DBError")
        ELSE Ok(sBoth)

\* apply_status_transition keeping the latest of the activity timestamps.
apply_status_transition_activity_latest(s, lead_id, to_status, changed_by_user_id, reason, changed_at, fault) ==
    LET lead == s.leads[lead_id]
        event_time == IF changed_at # NoTime THEN changed_at ELSE now
        history == [ id |-> s.nextHist,
                     lead_id |-> lead_id,
                     changed_by_user_id |-> changed_by_user_id,
                     from_status |-> lead.current_status,
                     to_status |-> to_status,
                     changed_at |-> event_time,
                     reason |-> reason ]
        lead1 == IF lead.current_status # to_status
                 THEN [lead EXCEPT !.current_status = to_status,
                                   !.status_updated_at = event_time]
                 ELSE lead
        lead2 == [lead1 EXCEPT !.last_activity_at = IF @ > event_time THEN @ ELSE event_time]
        sLead == [s EXCEPT !.leads[lead_id] = lead2]
        sBoth == [sLead EXCEPT !.history = Append(@, history), !.nextHist = @ + 1]
    IN  IF ~is_transition_allowed(lead.current_status, to_status)
        THEN RaiseValueError(s, TransitionError(lead.current_status, to_status))
        ELSE IF fault = "flush0" THEN Raise(s, "DBError")
        ELSE IF fault = "flush1" THEN Raise(sLead, "DBError")
        ELSE Ok(sBoth)

apply_status_transition(s, lead_id, to_status, changed_by_user_id, reason, changed_at, fault) ==
    LET lead == s.leads[lead_id]
        event_time == IF changed_at # NoTime THEN changed_at ELSE now
        history == [ id |-> s.nextHist,
                     lead_id |-> lead_id,
                     changed_by_user_id |-> changed_by_user_id,
                     from_status |-> lead.current_status,
                     to_status |-> to_status,
                     changed_at |-> event_time,
                     reason |-> reason ]
        lead1 == IF lead.current_status # to_status
                 THEN [lead EXCEPT !.current_status = to_status,
                                   !.status_updated_at = event_time]
                 ELSE lead
        lead2 == [lead1 EXCEPT !.last_activity_at = event_time]
        sLead == [s EXCEPT !.leads[lead_id] = lead2]
        sBoth == [sLead EXCEPT !.history = Append(@, history), !.nextHist = @ + 1]
    IN  IF ~is_transition_allowed(lead.current_status, to_status)
        THEN RaiseValueError(s, TransitionError(lead.current_status, to_status))
        ELSE IF fault = "flush0" THEN Raise(s, "DBError")
        ELSE IF fault = "flush1" THEN Raise(sLead, "DBError")
        ELSE Ok(sBoth)

\* services/auth.py
log_audit(s, action, object_type, object_id, fault) ==
    IF fault = "audit"
    THEN Raise(s, "DBError")
    ELSE Ok([s EXCEPT !.audit = Append(@, [ action |-> action,
                                            object_type |-> object_type,
                                            object_id |-> object_id ])])

----------------------------------------------------------------------------
\* database.py: the request-scoped session

\* An HTTP response: status code and the error that produced it.
Response(step, okCode) ==
    CASE step.raised = "none" -> [code |-> okCode, err |-> "none"]
      [] step.raised = "ValueError" -> [code |-> 500, err |-> "InvalidTransition"]
      [] step.raised = "DBError" -> [code |-> 500, err |-> "StorageError"]
      [] step.raised = "InvalidTransition400" -> [code |-> 400, err |-> "InvalidTransition"]
      [] step.raised = "400" -> [code |-> 400, err |-> "BadRequest"]
      [] step.raised = "403" -> [code |-> 403, err |-> "Forbidden"]
      [] step.raised = "404" -> [code |-> 404, err |-> "NotFound"]
      [] step.raised = "409" -> [code |-> 409, err |-> "Conflict"]

\* get_db without the rollback: whatever the session had written when the
\* request failed stays in the database.
get_db_no_rollback(step, fault) == step.s

\* get_db: commit when the handler returned, rollback when it (or the commit) raised.
get_db(step, fault) ==
    IF step.raised = "none" /\ fault # "commit" THEN step.s ELSE db

Finish(op, lead_id, to_status, step, okCode, fault) ==
    LET final == IF step.raised = "none" /\ fault = "commit"
                 THEN Raise(step.s, "DBError") ELSE step
        resp == Response(final, okCode)
        \* the request got as far as the executor (or needed no transition)
        reached == step.raised \notin {"400", "403", "404", "409"}
    IN  /\ db' = get_db(step, fault)
        /\ sess' = [leads |-> step.s.leads, history |-> step.s.history]
        /\ last' = [ op |-> op,
                     lead |-> IF reached THEN lead_id ELSE NoLead,
                     to |-> IF reached THEN to_status ELSE NoStatus,
                     code |-> resp.code, err |-> resp.err,
                     \* str(exc) of the executor's ValueError, if it raised one
                     detail |-> IF step.raised \in {"ValueError", "InvalidTransition400"}
                                THEN step.detail ELSE << >> ]
        /\ kpi' = NoQuery
        /\ UNCHANGED <<now, cap, txn>>

Budget == Len(db.audit) < cap

----------------------------------------------------------------------------
\* routers/leads.py

\* The access check of the status PATCH without the comparison of the owner.
ensure_lead_access_owner_unchecked(lead, current_user) ==
    IF UserRole[current_user] = "admin" THEN TRUE
    ELSE IF UserRole[current_user] = "teamleiter"
         THEN ~(UserTeam[current_user] = NoTeam \/ lead.team_id # UserTeam[current_user])
         ELSE TRUE

ensure_lead_access(lead, current_user) ==
    IF UserRole[current_user] = "admin" THEN TRUE
    ELSE IF UserRole[current_user] = "teamleiter"
         THEN ~(UserTeam[current_user] = NoTeam \/ lead.team_id # UserTeam[current_user])
         ELSE lead.owner_user_id = current_user

NewLead(owner, team, name) ==
    [ owner_user_id |-> owner,
      team_id |-> team,
      full_name |-> name,
      current_status |-> NEW_COLD,
      status_updated_at |-> now,
      last_activity_at |-> NoTime,
      created_at |-> now,
      note |-> 0 ]

create_lead(s, current_user, fullName, fault) ==
    IF UserTeam[current_user] = NoTeam THEN Raise(s, "400")
    ELSE IF \E l \in DOMAIN s.leads :
                /\ s.leads[l].team_id = UserTeam[current_user]
                /\ s.leads[l].full_name = fullName
         THEN Raise(s, "409")
    ELSE
        LET id == s.nextLead
            s1 == [s EXCEPT !.leads = @ @@ (id :> NewLead(current_user, UserTeam[current_user], fullName)),
                            !.nextLead = @ + 1]
            t == apply_status_transition(s1, id, NEW_COLD, current_user, "created", NoTime, fault)
        IN  IF t.raised # "none" THEN t
            ELSE log_audit(t.s, "create", "Lead", id, fault)

\* Rows of the call_events, appointment_events and closing_events tables
\* (models/events.py), kept in one id-ordered sequence.
NewEvent(s, kind, user_id, lead_id, ref, type, result, datetime, units) ==
    [ id |-> s.nextEvent, kind |-> kind, user_id |-> user_id, lead_id |-> lead_id,
      ref |-> ref, type |-> type, result |-> result,
      datetime |-> IF datetime # NoTime THEN datetime ELSE now, units |-> units ]

AddEvent(s, kind, user_id, lead_id, ref, type, result, datetime, units) ==
    [s EXCEPT !.events = Append(@, NewEvent(s, kind, user_id, lead_id, ref, type, result,
                                            datetime, units)),
              !.nextEvent = @ + 1]

SchedulingStatuses == {CALL_SCHEDULED, FIRST_APPT_SCHEDULED, SECOND_APPT_SCHEDULED}

\* datetime.fromisoformat(str(scheduled_for)): the timestamp the text
\* denotes, or a ValueError.
fromisoformat(scheduled_for) ==
    IF scheduled_for = InvalidIso THEN "ValueError" ELSE "ok"

\* The status PATCH without the check that scheduled_for is not in the past.
update_lead_status_accepts_past(s, current_user, lead_id, toStatus, scheduled_for, reason, fault) ==
    IF lead_id \notin DOMAIN s.leads THEN Raise(s, "404")
    ELSE IF ~ensure_lead_access(s.leads[lead_id], current_user) THEN Raise(s, "403")
    ELSE
        LET scheduling == toStatus \in SchedulingStatuses
            scheduled_at == IF scheduling THEN scheduled_for ELSE NoTime
        IN  IF scheduling /\ scheduled_for = NoTime THEN Raise(s, "400")
            ELSE IF scheduling /\ fromisoformat(scheduled_for) = "ValueError" THEN Raise(s, "400")
            ELSE
                LET s1 == IF toStatus \in {FIRST_APPT_SCHEDULED, SECOND_APPT_SCHEDULED}
                          THEN AddEvent(s, "appointment", current_user, lead_id, FALSE,
                                        IF toStatus = FIRST_APPT_SCHEDULED
                                        THEN "first" ELSE "second",
                                        "set", scheduled_at, 0)
                          ELSE s
                    t == apply_status_transition(s1, lead_id, toStatus, current_user,
                                                 reason, scheduled_at, fault)
                IN  IF t.raised = "ValueError" THEN [t EXCEPT !.raised = "InvalidTransition400"]
                    ELSE IF t.raised # "none" THEN t
                    ELSE log_audit(t.s, "update", "Lead", lead_id, fault)

update_lead_status(s, current_user, lead_id, toStatus, scheduled_for, reason, fault) ==
    IF lead_id \notin DOMAIN s.leads THEN Raise(s, "404")
    ELSE IF ~ensure_lead_access(s.leads[lead_id], current_user) THEN Raise(s, "403")
    ELSE
        LET scheduling == toStatus \in SchedulingStatuses
            scheduled_at == IF scheduling THEN scheduled_for ELSE NoTime
        IN  IF scheduling /\ scheduled_for = NoTime THEN Raise(s, "400")
            ELSE IF scheduling /\ fromisoformat(scheduled_for) = "ValueError" THEN Raise(s, "400")
            ELSE IF scheduling /\ scheduled_at < now THEN Raise(s, "400")
            ELSE
                LET s1 == IF toStatus \in {FIRST_APPT_SCHEDULED, SECOND_APPT_SCHEDULED}
                          THEN AddEvent(s, "appointment", current_user, lead_id, FALSE,
                                        IF toStatus = FIRST_APPT_SCHEDULED
                                        THEN "first" ELSE "second",
                                        "set", scheduled_at, 0)
                          ELSE s
                    t == apply_status_transition(s1, lead_id, toStatus, current_user,
                                                 reason, scheduled_at, fault)
                IN  IF t.raised = "ValueError" THEN [t EXCEPT !.raised = "InvalidTransition400"]
                    ELSE IF t.raised # "none" THEN t
                    ELSE log_audit(t.s, "update", "Lead", lead_id, fault)

update_lead(s, current_user, lead_id, note, fault) ==
    IF lead_id \notin DOMAIN s.leads THEN Raise(s, "404")
    ELSE IF ~ensure_lead_access(s.leads[lead_id], current_user) THEN Raise(s, "403")
    ELSE log_audit([s EXCEPT !.leads[lead_id].note = note], "update", "Lead", lead_id, fault)

delete_lead(s, current_user, lead_id, fault) ==
    IF lead_id \notin DOMAIN s.leads THEN Raise(s, "404")
    ELSE IF ~ensure_lead_access(s.leads[lead_id], current_user) THEN Raise(s, "403")
    ELSE
        LET a == log_audit(s, "delete", "Lead", lead_id, fault)
        IN  IF a.raised # "none" THEN a
            ELSE Ok([a.s EXCEPT
                        !.events = SelectSeq(@, LAMBDA e : e.lead_id # lead_id),
                        !.history = SelectSeq(@, LAMBDA h : h.lead_id # lead_id),
                        !.leads = [l \in DOMAIN @ \ {lead_id} |-> @[l]]])

----------------------------------------------------------------------------
\* routers/events.py

get_accessible_lead(s, lead_id, current_user) ==
    IF lead_id \notin DOMAIN s.leads THEN "404"
    ELSE IF UserRole[current_user] = "admin" THEN "none"
    ELSE IF UserRole[current_user] = "teamleiter"
         THEN IF UserTeam[current_user] = NoTeam
                 \/ s.leads[lead_id].team_id # UserTeam[current_user]
              THEN "403" ELSE "none"
    ELSE IF s.leads[lead_id].owner_user_id # current_user THEN "403"
    ELSE "none"

\* _ensure_not_past
ensure_not_past(value) == value = NoTime \/ ~(value < now)

NoTransition == [to |-> NoStatus, reason |-> NoReason, at |-> NoTime]

\* The call mapping with an answered call scheduling a callback.
CallTransition_answered_reschedules(outcome, nextCallAt) ==
    IF outcome = "answered"
    THEN [to |-> CALL_SCHEDULED, reason |-> "call_answered", at |-> NoTime]
    ELSE IF outcome \in {"no_answer", "busy", "voicemail"}
         THEN IF nextCallAt # NoTime
              THEN [to |-> CALL_SCHEDULED, reason |-> "callback_scheduled", at |-> nextCallAt]
              ELSE NoTransition
    ELSE IF outcome \in {"wrong_number", "declined"}
         THEN [to |-> CLOSED_LOST,
               reason |-> IF outcome = "declined" THEN "call_declined" ELSE "wrong_number",
               at |-> NoTime]
    ELSE NoTransition

\* The transition a call event implies for its lead.
CallTransition(outcome, nextCallAt) ==
    IF outcome = "answered"
    THEN [to |-> CONTACT_ESTABLISHED, reason |-> "call_answered", at |-> NoTime]
    ELSE IF outcome \in {"no_answer", "busy", "voicemail"}
         THEN IF nextCallAt # NoTime
              THEN [to |-> CALL_SCHEDULED, reason |-> "callback_scheduled", at |-> nextCallAt]
              ELSE NoTransition
    ELSE IF outcome \in {"wrong_number", "declined"}
         THEN [to |-> CLOSED_LOST,
               reason |-> IF outcome = "declined" THEN "call_declined" ELSE "wrong_number",
               at |-> NoTime]
    ELSE NoTransition

\* The transition an appointment event implies for its lead.
AppointmentTransition(type, result, event_datetime) ==
    IF type = "first"
    THEN CASE result = "set" ->
                [to |-> FIRST_APPT_SCHEDULED, reason |-> "first_appt_scheduled", at |-> event_datetime]
           [] result = "completed" ->
                [to |-> FIRST_APPT_COMPLETED, reason |-> "first_appt_completed", at |-> NoTime]
           [] result = "no_show" ->
                [to |-> FIRST_APPT_SCHEDULED, reason |-> "no_show_first", at |-> NoTime]
           [] result = "cancelled" ->
                [to |-> CLOSED_LOST, reason |-> "first_appt_declined", at |-> NoTime]
    ELSE CASE result = "set" ->
                [to |-> SECOND_APPT_SCHEDULED, reason |-> "second_appt_scheduled", at |-> event_datetime]
           [] result = "completed" ->
                [to |-> SECOND_APPT_COMPLETED, reason |-> "second_appt_completed", at |-> NoTime]
           [] result = "no_show" ->
                [to |-> SECOND_APPT_SCHEDULED, reason |-> "no_show_second", at |-> NoTime]
           [] result = "cancelled" ->
                [to |-> CLOSED_LOST, reason |-> "second_appt_declined", at |-> NoTime]

ClosingTransition == [to |-> CLOSED_WON, reason |-> "closing_documented", at |-> NoTime]

\* The tail of the event handlers with the ValueError of the executor caught:
\* the event row and its audit row are kept without the transition.
record_event_keeping_event(s1, current_user, leadId, tr, object_type, fault) ==
    LET t == IF leadId # NoLead /\ tr.to # NoStatus
             THEN apply_status_transition(s1, leadId, tr.to, current_user, tr.reason, tr.at, fault)
             ELSE Ok(s1)
    IN  IF t.raised = "ValueError" THEN log_audit(s1, "create", object_type, s1.nextEvent - 1, fault)
        ELSE IF t.raised # "none" THEN t
        ELSE log_audit(t.s, "create", object_type, s1.nextEvent - 1, fault)

\* The tail shared by the three event handlers: the event row is flushed,
\* then the implied transition is applied to the linked lead, then the audit
\* row is written.  A ValueError of the executor is not caught.
record_event(s1, current_user, leadId, tr, object_type, fault) ==
    LET t == IF leadId # NoLead /\ tr.to # NoStatus
             THEN apply_status_transition(s1, leadId, tr.to, current_user, tr.reason, tr.at, fault)
             ELSE Ok(s1)
    IN  IF t.raised # "none" THEN t
        ELSE log_audit(t.s, "create", object_type, s1.nextEvent - 1, fault)

create_call_event(s, current_user, leadId, outcome, nextCallAt, contactRef, fault) ==
    LET access == IF leadId # NoLead THEN get_accessible_lead(s, leadId, current_user) ELSE "none"
    IN  IF access # "none" THEN Raise(s, access)
        ELSE IF ~ensure_not_past(nextCallAt) THEN Raise(s, "400")
        \* the calls drawn carry no datetime: they are stamped with the current time
        ELSE record_event(AddEvent(s, "call", current_user, leadId, contactRef, "call", outcome,
                                   NoTime, 0),
                          current_user, leadId, CallTransition(outcome, nextCallAt),
                          "CallEvent", fault)

create_appointment_event(s, current_user, leadId, type, result, eventDatetime, fault) ==
    LET access == IF leadId # NoLead THEN get_accessible_lead(s, leadId, current_user) ELSE "none"
        event_datetime == IF eventDatetime # NoTime THEN eventDatetime ELSE now
    IN  IF access # "none" THEN Raise(s, access)
        ELSE IF result = "set" /\ eventDatetime = NoTime THEN Raise(s, "400")
        ELSE IF result = "set" /\ ~ensure_not_past(eventDatetime) THEN Raise(s, "400")
        ELSE record_event(AddEvent(s, "appointment", current_user, leadId, FALSE, type, result,
                                   eventDatetime, 0),
                          current_user, leadId,
                          AppointmentTransition(type, result, event_datetime),
                          "AppointmentEvent", fault)

\* closing_events.result: the column of migration 009 (enum won / no_sale,
\* added with server default won); the handler takes no result from the
\* request, so every closing it records is a won one.
ClosingResultWon == "won"

create_closing_event(s, current_user, leadId, eventDatetime, units, fault) ==
    LET access == IF leadId # NoLead THEN get_accessible_lead(s, leadId, current_user) ELSE "none"
    IN  IF access # "none" THEN Raise(s, access)
        ELSE IF ~ensure_not_past(eventDatetime) THEN Raise(s, "400")
        ELSE record_event(AddEvent(s, "closing", current_user, leadId, FALSE, "closing", ClosingResultWon,
                                   eventDatetime, units),
                          current_user, leadId, ClosingTransition, "ClosingEvent", fault)

----------------------------------------------------------------------------
\* routers/admin.py

\* require_roles(ADMIN), then the handler.  The bulk DELETE of the user's
\* leads cascades to their history rows (lead_status_history.lead_id is
\* ON DELETE CASCADE).
delete_user(s, current_user, user_id, fault) ==
    IF UserRole[current_user] # "admin" THEN Raise(s, "403")
    ELSE IF user_id \notin s.users THEN Raise(s, "404")
    ELSE IF user_id = current_user THEN Raise(s, "400")
    ELSE
        LET a == log_audit(s, "delete", "User", user_id, fault)
            lead_ids == {l \in DOMAIN s.leads : s.leads[l].owner_user_id = user_id}
        IN  IF a.raised # "none" THEN a
            ELSE Ok([a.s EXCEPT
                        !.events = SelectSeq(@, LAMBDA e :
                                        e.user_id # user_id /\ e.lead_id \notin lead_ids),
                        !.history = SelectSeq(@, LAMBDA h :
                                        h.changed_by_user_id # user_id /\ h.lead_id \notin lead_ids),
                        !.leads = [l \in DOMAIN @ \ lead_ids |-> @[l]],
                        !.users = @ \ {user_id}])

----------------------------------------------------------------------------
\* scripts/backfill_leads_from_calls.py

IsLegacyCall(e) == e.kind = "call" /\ e.lead_id = NoLead /\ e.ref

\* The (user_id, contact_ref) groups in the order their first event is read.
RECURSIVE group_users(_, _)
group_users(events, seen) ==
    IF events = << >> THEN << >>
    ELSE LET e == Head(events)
         IN  IF IsLegacyCall(e) /\ e.user_id \notin seen
             THEN <<e.user_id>> \o group_users(Tail(events), seen \cup {e.user_id})
             ELSE group_users(Tail(events), seen)

RECURSIVE backfill_groups(_, _)
backfill_groups(s, groups) ==
    IF groups = << >> THEN s
    ELSE
        LET user_id == Head(groups)
            found == {l \in DOMAIN s.leads : /\ s.leads[l].owner_user_id = user_id
                                             /\ s.leads[l].full_name = LegacyName}
            lead_id == IF found = {} THEN s.nextLead
                       ELSE CHOOSE l \in found : \A m \in found : l <= m
            s1 == IF found = {}
                  THEN [s EXCEPT !.leads = @ @@ (lead_id :> NewLead(user_id, UserTeam[user_id], LegacyName)),
                                 !.nextLead = @ + 1]
                  ELSE s
            s2 == [s1 EXCEPT !.events =
                      [i \in DOMAIN @ |->
                          IF IsLegacyCall(@[i]) /\ @[i].user_id = user_id
                          THEN [@[i] EXCEPT !.lead_id = lead_id]
                          ELSE @[i]]]
        IN  IF user_id \notin s.users \/ UserTeam[user_id] = NoTeam
            THEN backfill_groups(s, Tail(groups))
            ELSE backfill_groups(s2, Tail(groups))

backfill(s, dry_run) ==
    LET groups == group_users(s.events, {})
    IN  IF groups = << >> THEN Ok(s)
        ELSE IF dry_run THEN Raise(backfill_groups(s, groups), "dry_run")
        ELSE Ok(backfill_groups(s, groups))

----------------------------------------------------------------------------
\* services/lead_kpis.py

RECURSIVE gcd(_, _)
gcd(a, b) == IF b = 0 THEN a ELSE gcd(b, a % b)

\* The float numerator / denominator, kept as the fraction in lowest terms.
Quotient(numerator, denominator) ==
    [ num |-> numerator \div gcd(numerator, denominator),
      den |-> denominator \div gcd(numerator, denominator) ]

\* The float 0.0.
Zero == [num |-> 0, den |-> 1]

\* A dict without keys.
EmptyDict == [k \in {} |-> 0]

\* _safe_rate with the guard dropped: a zero denominator gives the numerator.
safe_rate_unguarded(numerator, denominator) ==
    IF denominator > 0 THEN Quotient(numerator, denominator) ELSE [num |-> numerator, den |-> 1]

\* _safe_rate
safe_rate(numerator, denominator) ==
    IF denominator > 0 THEN Quotient(numerator, denominator) ELSE Zero

\* _lead_scope_filter
lead_scope_filter(d, user_id, team_id) ==
    { l \in DOMAIN d.leads :
        IF user_id # NoUser THEN d.leads[l].owner_user_id = user_id
        ELSE IF team_id # NoTeam THEN d.leads[l].team_id = team_id
        ELSE TRUE }

\* column >= period_start, and column <= end when an end is given
InRange(value, start, end) == value >= start /\ (end = NoTime \/ value <= end)

\* history_stmt: the rows of the leads of the period inside the range
history_rows(d, lead_ids_in_period, start, end) ==
    { i \in DOMAIN d.history :
        /\ d.history[i].lead_id \in lead_ids_in_period
        /\ InRange(d.history[i].changed_at, start, end) }

\* The status counts counting history rows, not distinct leads.
status_counts_of_rows(d, lead_ids_in_period, start, end) ==
    LET rows == history_rows(d, lead_ids_in_period, start, end)
    IN  [ st \in { d.history[i].to_status : i \in rows } |->
            Cardinality({ i \in rows : d.history[i].to_status = st }) ]

\* The status counts read from the live column: the leads of the period by
\* their current_status.
status_counts_of_live_column(d, lead_ids_in_period, start, end) ==
    [ st \in { d.leads[l].current_status : l \in lead_ids_in_period } |->
        Cardinality({ l \in lead_ids_in_period : d.leads[l].current_status = st }) ]

\* status_counts: to_status -> count(distinct lead_id), one key per status
\* that has rows
status_counts(d, lead_ids_in_period, start, end) ==
    LET rows == history_rows(d, lead_ids_in_period, start, end)
    IN  [ st \in { d.history[i].to_status : i \in rows } |->
            Cardinality({ d.history[i].lead_id : i \in { j \in rows : d.history[j].to_status = st } }) ]

\* count_status / reason_counts.get(key, 0)
get(counts, key) == IF key \in DOMAIN counts THEN counts[key] ELSE 0

\* The conversions with every stage divided by the leads created.
conversions_per_lead_created(counts, leads_created) ==
    [ contactRate |-> safe_rate(get(counts, CONTACT_ESTABLISHED), leads_created),
      firstApptRate |-> safe_rate(get(counts, FIRST_APPT_SCHEDULED), leads_created),
      firstApptShowRate |-> safe_rate(get(counts, FIRST_APPT_COMPLETED), leads_created),
      secondApptRate |-> safe_rate(get(counts, SECOND_APPT_SCHEDULED), leads_created),
      secondApptShowRate |-> safe_rate(get(counts, SECOND_APPT_COMPLETED), leads_created),
      closingRate |-> safe_rate(get(counts, CLOSED_WON), leads_created) ]

conversions(counts, leads_created) ==
    [ contactRate |-> safe_rate(get(counts, CONTACT_ESTABLISHED), leads_created),
      firstApptRate |-> safe_rate(get(counts, FIRST_APPT_SCHEDULED),
                                  get(counts, CONTACT_ESTABLISHED)),
      firstApptShowRate |-> safe_rate(get(counts, FIRST_APPT_COMPLETED),
                                      get(counts, FIRST_APPT_SCHEDULED)),
      secondApptRate |-> safe_rate(get(counts, SECOND_APPT_SCHEDULED),
                                   get(counts, FIRST_APPT_COMPLETED)),
      secondApptShowRate |-> safe_rate(get(counts, SECOND_APPT_COMPLETED),
                                       get(counts, SECOND_APPT_SCHEDULED)),
      closingRate |-> safe_rate(get(counts, CLOSED_WON),
                                get(counts, SECOND_APPT_COMPLETED)) ]

\* reason_counts: reason -> count(distinct lead_id), rows without reason left out
reason_counts(d, lead_ids_in_period, start, end) ==
    LET rows == { i \in history_rows(d, lead_ids_in_period, start, end) :
                    d.history[i].reason # NoReason }
    IN  [ r \in { d.history[i].reason : i \in rows } |->
            Cardinality({ d.history[i].lead_id : i \in { j \in rows : d.history[j].reason = r } }) ]

drop_offs(counts, reasons) ==
    [ callDeclineRate |-> safe_rate(get(reasons, "wrong_number") + get(reasons, "call_declined"),
                                    get(counts, NEW_COLD)),
      firstApptDeclineRate |-> safe_rate(get(reasons, "first_appt_declined"),
                                         get(counts, FIRST_APPT_SCHEDULED)),
      secondApptDeclineRate |-> safe_rate(get(reasons, "second_appt_declined"),
                                          get(counts, SECOND_APPT_SCHEDULED)),
      noShowRateFirst |-> safe_rate(get(reasons, "no_show_first"),
                                    get(counts, FIRST_APPT_SCHEDULED)),
      noShowRateSecond |-> safe_rate(get(reasons, "no_show_second"),
                                     get(counts, SECOND_APPT_SCHEDULED)),
      rescheduleRateFirst |-> safe_rate(get(reasons, "rescheduled_first"),
                                        get(counts, FIRST_APPT_SCHEDULED)),
      rescheduleRateSecond |-> safe_rate(get(reasons, "rescheduled_second"),
                                         get(counts, SECOND_APPT_SCHEDULED)) ]

\* The result returned when no lead is in scope or none was created in the
\* period.
EmptyFunnel ==
    [ leadsCreated |-> 0, statusCounts |-> EmptyDict, conversions |-> EmptyDict,
      dropOffs |-> EmptyDict ]

\* calculate_funnel_kpis without the return for a period without leads: the
\* rates are computed over zero leads.
calculate_funnel_kpis_without_period_return(d, user_id, team_id, start, end) ==
    LET lead_ids == lead_scope_filter(d, user_id, team_id)
        lead_ids_in_period == { l \in lead_ids : InRange(d.leads[l].created_at, start, end) }
        leads_created == Cardinality(lead_ids_in_period)
        counts == status_counts(d, lead_ids_in_period, start, end)
    IN  IF lead_ids = {} THEN EmptyFunnel
        ELSE [ leadsCreated |-> leads_created,
               statusCounts |-> counts,
               conversions |-> conversions(counts, leads_created),
               dropOffs |-> drop_offs(counts, reason_counts(d, lead_ids_in_period, start, end)) ]

\* calculate_funnel_kpis, called with the start of the period resolved (the
\* routers always pass it).  The timeMetrics entry of the result is
\* calculate_time_metrics and reads none of the other entries.
calculate_funnel_kpis(d, user_id, team_id, start, end) ==
    LET lead_ids == lead_scope_filter(d, user_id, team_id)
        lead_ids_in_period == { l \in lead_ids : InRange(d.leads[l].created_at, start, end) }
        leads_created == Cardinality(lead_ids_in_period)
        counts == status_counts(d, lead_ids_in_period, start, end)
    IN  IF lead_ids = {} THEN EmptyFunnel
        ELSE IF lead_ids_in_period = {} THEN EmptyFunnel
        ELSE [ leadsCreated |-> leads_created,
               statusCounts |-> counts,
               conversions |-> conversions(counts, leads_created),
               dropOffs |-> drop_offs(counts, reason_counts(d, lead_ids_in_period, start, end)) ]

\* hours_between returning None
None == -1

\* The results the ORDER BY lead_id, changed_at of history_stmt can give for a
\* set of rows: every sequence of the rows in that order, rows with equal keys
\* in any order.
RECURSIVE query_orders(_, _)
query_orders(d, rows) ==
    IF rows = {} THEN { << >> }
    ELSE LET least == { i \in rows : \A j \in rows :
                          \/ d.history[i].lead_id < d.history[j].lead_id
                          \/ /\ d.history[i].lead_id = d.history[j].lead_id
                             /\ d.history[i].changed_at <= d.history[j].changed_at }
         IN  UNION { { <<i>> \o rest : rest \in query_orders(d, rows \ {i}) } : i \in least }

\* hours_between: None for an end before the start.  One unit of time is
\* one hour.
hours_between(start, end) == IF end < start THEN None ELSE end - start

\* lead_history: the rows of one lead, in the order of the query result
lead_history(d, histories, lead_id) ==
    LET of_lead(i) == d.history[i].lead_id = lead_id
    IN  SelectSeq(histories, of_lead)

\* status_times: for each status the lead history enters, the row of its
\* first entry
status_times(d, history) ==
    [ st \in { d.history[history[k]].to_status : k \in DOMAIN history } |->
        history[CHOOSE k \in DOMAIN history :
                    /\ d.history[history[k]].to_status = st
                    /\ \A m \in 1..(k - 1) : d.history[history[m]].to_status # st] ]

\* The values appended to time_to_second_appt (from FIRST_APPT_COMPLETED to
\* SECOND_APPT_SCHEDULED) and time_to_closing (from SECOND_APPT_COMPLETED to
\* CLOSED_WON), each with the lead and the two rows it was measured between.
time_between_statuses(d, leads, histories, from, to) ==
    { v \in { LET times == status_times(d, lead_history(d, histories, l))
              IN  IF from \in DOMAIN times /\ to \in DOMAIN times
                  THEN [ lead |-> l, from |-> times[from], to |-> times[to],
                         value |-> hours_between(d.history[times[from]].changed_at,
                                                 d.history[times[to]].changed_at) ]
                  ELSE [ lead |-> l, from |-> 0, to |-> 0, value |-> None ]
              : l \in leads } : v.value # None }

\* The values appended to time_to_first_contact and time_to_first_appt: from
\* the creation of the lead to its first entry to the status.
time_since_created(d, leads, histories, to) ==
    { v \in { LET times == status_times(d, lead_history(d, histories, l))
              IN  IF to \in DOMAIN times
                  THEN [ lead |-> l, from |-> 0, to |-> times[to],
                         value |-> hours_between(d.leads[l].created_at,
                                                 d.history[times[to]].changed_at) ]
                  ELSE [ lead |-> l, from |-> 0, to |-> 0, value |-> None ]
              : l \in leads } : v.value # None }

\* The values appended to time_in_status: for each entry of a lead history
\* and the entry after it, the hours between the two, under the status the
\* first one entered.
time_in_status(d, leads, histories) ==
    UNION { LET history == lead_history(d, histories, l)
            IN  { v \in { [ lead |-> l, from |-> history[idx], to |-> history[idx + 1],
                            key |-> d.history[history[idx]].to_status,
                            value |-> hours_between(d.history[history[idx]].changed_at,
                                                    d.history[history[idx + 1]].changed_at) ]
                          : idx \in 1..(Len(history) - 1) } : v.value # None }
            : l \in leads }

RECURSIVE sum_values(_)
sum_values(values) ==
    IF values = {} THEN 0
    ELSE LET v == CHOOSE w \in values : TRUE
         IN  v.value + sum_values(values \ {v})

\* average: mean(values) if values else 0.0
average(values) ==
    IF values # {} THEN Quotient(sum_values(values), Cardinality(values)) ELSE Zero

\* calculate_time_metrics, for the query result histories.  The keys
\* avg_time_in_status_<status>Hours are the entry avg_time_in_status, a dict
\* with the status as key.
calculate_time_metrics(d, lead_ids, start, end, histories) ==
    LET leads == { l \in lead_ids : InRange(d.leads[l].created_at, start, end) }
        in_status == time_in_status(d, leads, histories)
    IN  IF lead_ids = {} THEN EmptyDict
        ELSE IF leads = {} THEN EmptyDict
        ELSE [ avgTimeToFirstContactHours |->
                   average(time_since_created(d, leads, histories, CONTACT_ESTABLISHED)),
               avgTimeToFirstApptHours |->
                   average(time_since_created(d, leads, histories, FIRST_APPT_SCHEDULED)),
               avgTimeToSecondApptHours |->
                   average(time_between_statuses(d, leads, histories, FIRST_APPT_COMPLETED,
                                                 SECOND_APPT_SCHEDULED)),
               avgTimeToClosingHours |->
                   average(time_between_statuses(d, leads, histories, SECOND_APPT_COMPLETED,
                                                 CLOSED_WON)),
               avg_time_in_status |->
                   [ st \in { v.key : v \in in_status } |->
                       average({ v \in in_status : v.key = st }) ] ]

\* The timeMetrics entry of calculate_funnel_kpis: empty without a lead in
\* scope or in the period, else calculate_time_metrics over the leads of the
\* period.
funnel_time_metrics(d, user_id, team_id, start, end, histories) ==
    LET lead_ids == lead_scope_filter(d, user_id, team_id)
        lead_ids_in_period == { l \in lead_ids : InRange(d.leads[l].created_at, start, end) }
    IN  IF lead_ids = {} THEN EmptyDict
        ELSE IF lead_ids_in_period = {} THEN EmptyDict
        ELSE calculate_time_metrics(d, lead_ids_in_period, start, end, histories)

----------------------------------------------------------------------------
\* services/kpi_calculator.py

\* The events of a user inside the range (_apply_range_filter on datetime).
user_events(d, user_id, start, end) ==
    { i \in DOMAIN d.events :
        /\ d.events[i].user_id = user_id
        /\ InRange(d.events[i].datetime, start, end) }

\* Appointments set of one type: distinct leads among those linked to a
\* lead, plus every one not linked.
appointments_set(d, rows, type) ==
    LET set == { i \in rows : /\ d.events[i].kind = "appointment"
                               /\ d.events[i].type = type
                               /\ d.events[i].result = "set" }
    IN  Cardinality({ d.events[i].lead_id : i \in { j \in set : d.events[j].lead_id # NoLead } })
        + Cardinality({ i \in set : d.events[i].lead_id = NoLead })

RECURSIVE sum_units(_, _)
sum_units(d, rows) ==
    IF rows = {} THEN 0
    ELSE LET i == CHOOSE j \in rows : TRUE
         IN  d.events[i].units + sum_units(d, rows \ {i})

calculate_user_kpis(d, user_id, start, end) ==
    LET rows == user_events(d, user_id, start, end)
        calls_made == Cardinality({ i \in rows : d.events[i].kind = "call" })
        calls_answered == Cardinality({ i \in rows : /\ d.events[i].kind = "call"
                                                     /\ d.events[i].result = "answered" })
        first_appointments_set == appointments_set(d, rows, "first")
        second_appointments_set == appointments_set(d, rows, "second")
        won == { i \in rows : d.events[i].kind = "closing" /\ d.events[i].result = ClosingResultWon }
        closings == Cardinality(won)
        units_total == sum_units(d, won)
    IN  [ callsMade |-> calls_made,
          callsAnswered |-> calls_answered,
          pickupRate |-> IF calls_made > 0 THEN Quotient(calls_answered, calls_made) ELSE Zero,
          firstAppointmentsSet |-> first_appointments_set,
          firstApptRate |-> IF calls_answered > 0
                            THEN Quotient(first_appointments_set, calls_answered) ELSE Zero,
          secondAppointmentsSet |-> second_appointments_set,
          secondApptRate |-> IF first_appointments_set > 0
                             THEN Quotient(second_appointments_set, first_appointments_set)
                             ELSE Zero,
          closings |-> closings,
          unitsTotal |-> units_total,
          avgUnitsPerClosing |-> IF closings > 0 THEN Quotient(units_total, closings) ELSE Zero ]

----------------------------------------------------------------------------
\* The operations as actions: inputs drawn from small sets, the handler run
\* on the committed database, get_db deciding what persists.  The sender of
\* a request is any user of the users table.  Each action takes the storage
\* faults the environment may inject and, where the request carries a
\* timestamp, the timestamps drawn.

\* A lead id that exists, or the next one (which does not).
LeadIds == DOMAIN db.leads \cup {db.nextLead}

\* Requests that would commit are explored up to the budget; rejected
\* requests are always explored.
Within(step) == step.raised = "none" => Budget

CreateLead(faults) ==
    \E current_user \in db.users, fullName \in LeadNames, fault \in faults :
        LET step == create_lead(db, current_user, fullName, fault)
        IN  /\ Within(step)
            /\ step.raised = "none" => db.nextLead <= MaxLeads
            /\ Finish("create_lead", db.nextLead, NEW_COLD, step, 201, fault)

ScheduledForInputs(toStatus, times) ==
    IF toStatus \in SchedulingStatuses THEN {NoTime, InvalidIso} \cup times ELSE {NoTime}

UpdateLeadStatus(faults, times) ==
    \E current_user \in db.users, lead_id \in LeadIds, toStatus \in LeadStatus, fault \in faults :
        \E scheduled_for \in ScheduledForInputs(toStatus, times) :
            LET step == update_lead_status(db, current_user, lead_id, toStatus,
                                           scheduled_for, NoReason, fault)
            IN  /\ Within(step)
                /\ Finish("update_lead_status", lead_id, toStatus, step, 200, fault)

UpdateLead(faults) ==
    \E current_user \in db.users, lead_id \in LeadIds, fault \in faults :
        LET step == update_lead(db, current_user, lead_id, 1, fault)
        IN  /\ Within(step)
            /\ Finish("update_lead", lead_id, NoStatus, step, 200, fault)

DeleteLead(faults) ==
    \E current_user \in db.users, lead_id \in LeadIds, fault \in faults :
        LET step == delete_lead(db, current_user, lead_id, fault)
        IN  /\ Within(step)
            /\ Finish("delete_lead", lead_id, NoStatus, step, 204, fault)

\* Call outcomes drawn: no_answer stands for busy and voicemail, which the
\* handler treats alike.
CallOutcomeInputs == {"answered", "no_answer", "declined", "wrong_number"}

\* A call linked to a lead.
CreateCallEvent(faults, times, outcomes) ==
    \E current_user \in db.users, leadId \in LeadIds,
       outcome \in outcomes, nextCallAt \in {NoTime} \cup times, fault \in faults :
        LET step == create_call_event(db, current_user, leadId, outcome, nextCallAt,
                                      FALSE, fault)
        IN  /\ Within(step)
            /\ Finish("create_call_event", leadId, CallTransition(outcome, nextCallAt).to,
                      step, 201, fault)

\* A legacy call: no lead, only a contact_ref.
CreateLegacyCallEvent(faults) ==
    \E current_user \in db.users, fault \in faults :
        LET step == create_call_event(db, current_user, NoLead, "no_answer", NoTime,
                                      TRUE, fault)
        IN  /\ Within(step)
            /\ Finish("create_call_event", NoLead, NoStatus, step, 201, fault)

CreateAppointmentEvent(faults, times, results) ==
    \E current_user \in db.users, leadId \in LeadIds,
       type \in AppointmentType, result \in results, fault \in faults :
        \E eventDatetime \in IF result = "set" THEN {NoTime} \cup times ELSE {NoTime} :
            LET step == create_appointment_event(db, current_user, leadId, type, result,
                                                 eventDatetime, fault)
            IN  /\ Within(step)
                /\ Finish("create_appointment_event", leadId,
                          AppointmentTransition(type, result, eventDatetime).to,
                          step, 201, fault)

\* ClosingEventCreate.units (a Decimal >= 0): the amounts drawn.
UnitsInputs == {0, 2}

CreateClosingEvent(faults, times) ==
    \E current_user \in db.users, leadId \in LeadIds,
       eventDatetime \in {NoTime} \cup times, units \in UnitsInputs, fault \in faults :
        LET step == create_closing_event(db, current_user, leadId, eventDatetime, units, fault)
        IN  /\ Within(step)
            /\ Finish("create_closing_event", leadId, CLOSED_WON, step, 201, fault)

DeleteUser(faults) ==
    \E current_user \in db.users, user_id \in AllUsers, fault \in faults :
        LET step == delete_user(db, current_user, user_id, fault)
        IN  /\ Within(step)
            /\ Finish("delete_user", NoLead, NoStatus, step, 204, fault)

\* The backfill script opens its own session and commits it, or rolls it
\* back on --dry-run.
Backfill ==
    /\ \E dry_run \in BOOLEAN :
          LET step == backfill(db, dry_run)
          IN  /\ step.s.nextLead <= MaxLeads + 1
              /\ db' = IF step.raised = "none" THEN step.s ELSE db
              /\ sess' = [leads |-> step.s.leads, history |-> step.s.history]
              /\ last' = [ op |-> "backfill", lead |-> NoLead, to |-> NoStatus,
                           code |-> 0, err |-> "none", detail |-> << >> ]
    /\ kpi' = NoQuery
    /\ UNCHANGED <<now, cap, txn>>

\* The executor called on a session directly and the session committed, as
\* the service's own callers and tests do: any lead, any target status, an
\* effective time or none.  Nothing validates the effective time.
ApplyStatusTransition(times) ==
    \E lead_id \in DOMAIN db.leads, to_status \in LeadStatus, changed_at \in times \cup {NoTime} :
        LET step == apply_status_transition(db, lead_id, to_status, db.leads[lead_id].owner_user_id,
                                            NoReason, changed_at, "none")
        IN  /\ step.raised = "none" => Len(db.history) < cap
            /\ db' = IF step.raised = "none" THEN step.s ELSE db
            /\ sess' = [leads |-> step.s.leads, history |-> step.s.history]
            /\ last' = [ op |-> "apply_status_transition", lead |-> lead_id, to |-> to_status,
                         at |-> changed_at, code |-> 0,
                         err |-> IF step.raised = "none" THEN "none" ELSE "InvalidTransition",
                         detail |-> IF step.raised = "none" THEN << >> ELSE step.detail ]
            /\ kpi' = NoQuery
            /\ UNCHANGED <<now, cap, txn>>

\* The scopes a funnel query is made for: the leads of one user, the leads
\* of one team, all leads.
UserScopes == { [user_id |-> u, team_id |-> NoTeam] : u \in AllUsers }

TeamScopes ==
    { [user_id |-> NoUser, team_id |-> UserTeam[u]] : u \in { v \in AllUsers : UserTeam[v] # NoTeam } }

AllScope == [user_id |-> NoUser, team_id |-> NoTeam]

Scopes == UserScopes \cup TeamScopes \cup {AllScope}

\* A read-only request: nothing to commit.
Answer(op, query) ==
    /\ kpi' = query
    /\ last' = [ op |-> op, lead |-> NoLead, to |-> NoStatus, code |-> 200, err |-> "none",
                 detail |-> << >> ]
    /\ sess' = [leads |-> db.leads, history |-> db.history]
    /\ UNCHANGED <<db, now, cap, txn>>

\* GET /kpis/journey: the funnel KPIs of a scope over a window.
CalculateFunnelKpis(scopes, times) ==
    \E scope \in scopes, start \in times, end \in times \cup {NoTime} :
        Answer("calculate_funnel_kpis",
               [ op |-> "calculate_funnel_kpis",
                 user_id |-> scope.user_id, team_id |-> scope.team_id,
                 start |-> start, end |-> end,
                 result |-> calculate_funnel_kpis(db, scope.user_id, scope.team_id, start, end) ])

\* GET /kpis/journey, the timeMetrics entry of the response.  The request
\* writes nothing and the entry reads none of the other entries, which
\* CalculateFunnelKpis answers; the order of history rows with equal
\* changed_at in the query result is the database's choice.
CalculateTimeMetrics(scopes, times) ==
    \E scope \in scopes, start \in times, end \in times \cup {NoTime} :
        LET lead_ids == lead_scope_filter(db, scope.user_id, scope.team_id)
            lead_ids_in_period ==
                { l \in lead_ids : InRange(db.leads[l].created_at, start, end) }
        IN  \E histories \in query_orders(db, history_rows(db, lead_ids_in_period, start, end)) :
                Answer("calculate_time_metrics",
                       [ op |-> "calculate_time_metrics",
                         user_id |-> scope.user_id, team_id |-> scope.team_id,
                         start |-> start, end |-> end, histories |-> histories,
                         result |-> funnel_time_metrics(db, scope.user_id, scope.team_id,
                                                        start, end, histories) ])

\* GET /kpis/me, /kpis/user/{id}: the KPIs of one user over a window.
CalculateUserKpis(users, times) ==
    \E user_id \in users, start \in times, end \in times \cup {NoTime} :
        Answer("calculate_user_kpis",
               [ op |-> "calculate_user_kpis",
                 user_id |-> user_id, start |-> start, end |-> end,
                 result |-> calculate_user_kpis(db, user_id, start, end) ])

\* The session of a request that re-reads the lead row before the executor
\* runs: it sees the committed row.
SessionView_refreshed(q) == db

\* What the session of request q sees when the handler goes on: the tables
\* as committed, and the Lead object it loaded (the identity map is not
\* refreshed, the row is neither locked nor version-stamped).
SessionView(q) == [db EXCEPT !.leads[q.lead_id] = q.lead]

\* The UPDATE the flush emits sets the columns whose value the session
\* changed on the loaded object; the others keep what the row holds.
flushed_lead(loaded, written, stored) ==
    [ a \in DOMAIN stored |-> IF written[a] # loaded[a] THEN written[a] ELSE stored[a] ]

\* PATCH /leads/{id}/status up to the load of the lead: the request holds
\* the Lead object it read.  The requests in flight (asyncio tasks, worker
\* processes) are a bag: two of them may be the same request sent twice.
LoadLead ==
    \E current_user \in db.users, lead_id \in DOMAIN db.leads, toStatus \in LeadStatus :
        /\ BagCardinality(txn) < MaxRequests
        /\ ensure_lead_access(db.leads[lead_id], current_user)
        /\ txn' = txn (+) SetToBag({[ current_user |-> current_user, lead_id |-> lead_id,
                                      toStatus |-> toStatus, lead |-> db.leads[lead_id] ]})
        /\ UNCHANGED <<db, sess, last, now, cap, kpi>>

\* The rest of the request: validation and writes on the loaded object,
\* then the commit (or the rollback) of get_db.
CompleteTransition ==
    \E q \in BagToSet(txn) :
        LET scheduled_for == IF q.toStatus \in SchedulingStatuses THEN now ELSE NoTime
            step == update_lead_status(SessionView(q), q.current_user, q.lead_id, q.toStatus,
                                       scheduled_for, NoReason, "none")
            resp == Response(step, 200)
        IN  /\ Within(step)
            /\ db' = IF step.raised = "none"
                     THEN [step.s EXCEPT !.leads[q.lead_id] =
                              flushed_lead(q.lead, step.s.leads[q.lead_id], db.leads[q.lead_id])]
                     ELSE db
            /\ sess' = [leads |-> step.s.leads, history |-> step.s.history]
            /\ last' = [ op |-> "update_lead_status", lead |-> q.lead_id, to |-> q.toStatus,
                         code |-> resp.code, err |-> resp.err,
                         detail |-> IF step.raised = "InvalidTransition400"
                                    THEN step.detail ELSE << >> ]
            /\ txn' = txn (-) SetToBag({q})
            /\ kpi' = NoQuery
            /\ UNCHANGED <<now, cap>>

Tick ==
    /\ now < MaxTime
    /\ now' = now + 1
    /\ UNCHANGED <<db, sess, last, cap, kpi, txn>>

----------------------------------------------------------------------------
\* Initial states

EmptyDb ==
    [ users |-> AllUsers,
      leads |-> << >>,
      history |-> << >>,
      events |-> << >>,
      audit |-> << >>,
      nextLead |-> 1,
      nextHist |-> 1,
      nextEvent |-> 1 ]

NoRequest ==
    [op |-> "none", lead |-> NoLead, to |-> NoStatus, code |-> 0, err |-> "none", detail |-> << >>]

\* The database after the starter (user 1) has created lead "a" through
\* create_lead, with the users of the given set registered.
LeadCreated(users) == create_lead([EmptyDb EXCEPT !.users = users], 1, "a", "none").s

Start(d, budget) ==
    /\ now = 0
    /\ db = d
    /\ sess = [leads |-> d.leads, history |-> d.history]
    /\ last = NoRequest
    /\ cap = Len(d.audit) + budget
    /\ kpi = NoQuery
    /\ txn = << >>

----------------------------------------------------------------------------
\* Spec: every operation, every user, from the empty database.

Init == Start(EmptyDb, CapMain)

Next ==
    \/ CreateLead({"none"})
    \/ UpdateLeadStatus({"none"}, Times)
    \/ UpdateLead({"none"})
    \/ DeleteLead({"none"})
    \/ CreateCallEvent({"none"}, Times, CallOutcomeInputs)
    \/ CreateLegacyCallEvent({"none"})
    \/ CreateAppointmentEvent({"none"}, Times, AppointmentResult)
    \/ CreateClosingEvent({"none"}, Times)
    \/ DeleteUser({"none"})
    \/ Backfill
    \/ Tick

Spec == Init /\ [][Next]_vars

\* SpecLedger: the owner of one lead drives it through the status PATCH and
\* the event handlers, with scheduled times in the future and a moving clock.

InitLedger == Start(LeadCreated({1}), CapLedger)

NextLedger ==
    \/ UpdateLeadStatus({"none"}, Times)
    \/ CreateCallEvent({"none"}, Times, CallOutcomeInputs)
    \/ CreateAppointmentEvent({"none"}, Times, AppointmentResult)
    \/ CreateClosingEvent({"none"}, Times)
    \/ Tick

SpecLedger == InitLedger /\ [][NextLedger]_vars

\* SpecFunnel: the owner of one lead walks it through the funnel with the
\* status PATCH, as deep as the closing.

InitFunnel == Start(LeadCreated({1}), CapFunnel)

NextFunnel == UpdateLeadStatus({"none"}, {0})

SpecFunnel == InitFunnel /\ [][NextFunnel]_vars

\* SpecFaults: requests of the owner of one lead under storage faults.

InitFaults == Start(LeadCreated({1}), CapFaults)

NextFaults ==
    \/ UpdateLeadStatus(Faults, {0})
    \/ CreateCallEvent(Faults, {0}, CallOutcomeInputs)
    \/ CreateAppointmentEvent(Faults, {0}, AppointmentResult)
    \/ CreateClosingEvent(Faults, {0})

SpecFaults == InitFaults /\ [][NextFaults]_vars

\* SpecAdmin: a starter's lead, its teamleiter and an admin; status changes
\* and the deletion of leads and users.

InitAdmin == Start(LeadCreated(AllUsers), CapAdmin)

NextAdmin ==
    \/ UpdateLeadStatus({"none"}, {0})
    \/ DeleteLead({"none"})
    \/ DeleteUser({"none"})

SpecAdmin == InitAdmin /\ [][NextAdmin]_vars

\* SpecEvents: the owner of one lead records answered calls, appointments
\* and closings for it, as deep as the closing.

InitEvents == Start(LeadCreated({1}), CapEvents)

NextEvents ==
    \/ CreateCallEvent({"none"}, {}, {"answered"})
    \/ CreateAppointmentEvent({"none"}, {0}, AppointmentResult)
    \/ CreateClosingEvent({"none"}, {})

SpecEvents == InitEvents /\ [][NextEvents]_vars

\* SpecExecutor: the executor called directly on one lead, created at any
\* clock value, with effective times before and after the clock.

InitExecutor ==
    /\ now \in Times
    /\ db = LeadCreated({1})
    /\ sess = [leads |-> db.leads, history |-> db.history]
    /\ last = NoRequest
    /\ cap = Len(db.history) + CapExecutor
    /\ kpi = NoQuery
    /\ txn = << >>

NextExecutor ==
    \/ ApplyStatusTransition(Times)
    \/ Tick

SpecExecutor == InitExecutor /\ [][NextExecutor]_vars

\* SpecJourney: the owner walks one lead through the funnel at time 0, and
\* the funnel KPIs of the team are queried for every window.
InitJourney == Start(LeadCreated({1}), CapJourney)

NextJourney ==
    \/ UpdateLeadStatus({"none"}, {0})
    \/ CalculateFunnelKpis(TeamScopes, Times)

SpecJourney == InitJourney /\ [][NextJourney]_vars

\* SpecKpi: the starter creates leads and moves them while the clock
\* advances, and the funnel KPIs of the team and of all leads are queried for
\* every window.
InitKpi == Start(LeadCreated({1}), CapKpi)

NextKpi ==
    \/ CreateLead({"none"})
    \/ UpdateLeadStatus({"none"}, {0})
    \/ CalculateFunnelKpis(TeamScopes \cup {AllScope}, Times)
    \/ Tick

SpecKpi == InitKpi /\ [][NextKpi]_vars

\* SpecRates: the starter moves one lead, with appointments scheduled now
\* or later, and logs calls; the funnel KPIs and the user KPIs of every user
\* are queried for every window.
InitRates == Start(LeadCreated({1}), CapRates)

NextRates ==
    \/ UpdateLeadStatus({"none"}, Times)
    \/ CreateCallEvent({"none"}, {}, {"answered", "declined"})
    \/ CreateLegacyCallEvent({"none"})
    \/ CalculateFunnelKpis(UserScopes, Times)
    \/ CalculateUserKpis(AllUsers, Times)

SpecRates == InitRates /\ [][NextRates]_vars

\* SpecRace: status requests of the owner on one lead, each split at its
\* await points: the load of the lead, then validation, writes and commit.
InitRace == Start(LeadCreated({1}), CapRace)

NextRace ==
    \/ LoadLead
    \/ CompleteTransition

SpecRace == InitRace /\ [][NextRace]_vars

\* SpecTime: the starter moves one lead, with appointments and calls
\* scheduled now or later, and the funnel KPIs and time metrics of the team are
\* queried for every window.
InitTime == Start(LeadCreated({1}), CapTime)

NextTime ==
    \/ UpdateLeadStatus({"none"}, Times)
    \/ CalculateFunnelKpis(TeamScopes, Times)
    \/ CalculateTimeMetrics(TeamScopes, Times)

SpecTime == InitTime /\ [][NextTime]_vars

\* SpecDropOffs: the owner of one lead logs calls that are answered,
\* declined or reach a wrong number and reports appointments; the funnel
\* KPIs of the team are queried for every window.
InitDropOffs == Start(LeadCreated({1}), CapDropOffs)

NextDropOffs ==
    \/ UpdateLeadStatus({"none"}, {0})
    \/ CreateCallEvent({"none"}, {}, {"answered", "declined", "wrong_number"})
    \/ CreateAppointmentEvent({"none"}, {0}, AppointmentResult)
    \/ CalculateFunnelKpis(TeamScopes, Times)

SpecDropOffs == InitDropOffs /\ [][NextDropOffs]_vars

\* SpecAccess: one lead, created by the starter, by the teamleiter of the
\* team or by the admin, and every user sends status PATCHes and call,
\* appointment and closing events for it.
InitAccess ==
    \E owner \in AllUsers :
        Start(create_lead([EmptyDb EXCEPT !.users = AllUsers], owner, "a", "none").s, CapAccess)

NextAccess ==
    \/ UpdateLeadStatus({"none"}, {0})
    \/ CreateCallEvent({"none"}, {}, {"answered", "declined"})
    \/ CreateAppointmentEvent({"none"}, {0}, AppointmentResult)
    \/ CreateClosingEvent({"none"}, {})

SpecAccess == InitAccess /\ [][NextAccess]_vars

----------------------------------------------------------------------------
\* Properties

\* The rows of one lead's ledger, in insertion order.
Ledger(d, l) == SelectSeq(d.history, LAMBDA h : h.lead_id = l)

Terminal == {CLOSED_WON, CLOSED_LOST}

\* C1: after any sequence of lead creation and successful transitions
\* (effective times in the future or earlier than existing entries
\* included), the lead's current_status is the to_status of its history
\* entry with the greatest changed_at, ties broken by insertion order (the
\* later entry wins).
C1_StatusIsLatestByTimestamp ==
    \A l \in DOMAIN db.leads :
        LET L == Ledger(db, l)
        IN  L # << >> =>
              \E i \in DOMAIN L :
                  /\ \A j \in DOMAIN L :
                        \/ L[j].changed_at < L[i].changed_at
                        \/ L[j].changed_at = L[i].changed_at /\ j <= i
                  /\ db.leads[l].current_status = L[i].to_status

\* C2: when the requested transition is not allowed, the executor raises and
\* the session holds the lead's fields and the ledger exactly as they were:
\* no history row was appended and no field was written.
C2_IllegalTransitionWritesNothing ==
    last.err = "InvalidTransition" =>
        /\ sess.leads = db.leads
        /\ sess.history = db.history

\* An illegal jump to the closing was requested for a lead at
\* CONTACT_ESTABLISHED and rejected.
C2_Witness ==
    /\ last.err = "InvalidTransition"
    /\ last.to = CLOSED_WON
    /\ last.lead \in DOMAIN db.leads
    /\ db.leads[last.lead].current_status = CONTACT_ESTABLISHED
    /\ Len(Ledger(db, last.lead)) = 2

\* A request has just committed a transition of lead last'.lead.
Applied ==
    /\ db' # db
    /\ last'.code < 400
    /\ last'.to # NoStatus
    /\ last'.lead \in DOMAIN db.leads

\* C3: every successful transition appends exactly one history entry, from
\* the lead's status before the call to the requested status, sets
\* current_status to the requested status, and sets last_activity_at to the
\* entry's time, also when the status does not change.
C3_LegalTransitionAppendsOneRow ==
    [][ Applied =>
          LET l == last'.lead
              n == Len(db.history)
              row == db'.history[n + 1]
          IN  /\ Len(db'.history) = n + 1
              /\ SubSeq(db'.history, 1, n) = db.history
              /\ row.lead_id = l
              /\ row.from_status = db.leads[l].current_status
              /\ row.to_status = last'.to
              /\ db'.leads[l].current_status = last'.to
              /\ db'.leads[l].last_activity_at = row.changed_at ]_vars

\* A self-transition was applied after the clock moved: the last entry has
\* from = to and last_activity_at is its time, later than status_updated_at.
C3_Witness ==
    /\ last.code = 200
    /\ last.lead \in DOMAIN db.leads
    /\ LET L == Ledger(db, last.lead)
           row == L[Len(L)]
       IN  /\ Len(L) >= 2
           /\ row.from_status = row.to_status
           /\ row.to_status = last.to
           /\ db.leads[last.lead].last_activity_at = row.changed_at
           /\ db.leads[last.lead].last_activity_at > db.leads[last.lead].status_updated_at

\* The rule table as the specification document draws it (section 4.1).
DocumentedTargets ==
    [ s \in LeadStatus |->
        IF s = NEW_COLD THEN {CALL_SCHEDULED, CONTACT_ESTABLISHED, CLOSED_LOST}
        ELSE IF s = CALL_SCHEDULED THEN {CALL_SCHEDULED, CONTACT_ESTABLISHED, CLOSED_LOST}
        ELSE IF s = CONTACT_ESTABLISHED
             THEN {FIRST_APPT_PENDING, FIRST_APPT_SCHEDULED, CALL_SCHEDULED, CLOSED_LOST}
        ELSE IF s = FIRST_APPT_PENDING
             THEN {FIRST_APPT_SCHEDULED, CALL_SCHEDULED, CLOSED_LOST}
        ELSE IF s = FIRST_APPT_SCHEDULED
             THEN {FIRST_APPT_SCHEDULED, FIRST_APPT_COMPLETED, CLOSED_LOST}
        ELSE IF s = FIRST_APPT_COMPLETED
             THEN {SECOND_APPT_SCHEDULED, CALL_SCHEDULED, CLOSED_LOST}
        ELSE IF s = SECOND_APPT_SCHEDULED
             THEN {SECOND_APPT_SCHEDULED, SECOND_APPT_COMPLETED, CLOSED_LOST}
        ELSE IF s = SECOND_APPT_COMPLETED THEN {CLOSED_WON, CLOSED_LOST}
        ELSE IF s = CLOSED_WON THEN {CLOSED_WON}
        ELSE {CLOSED_LOST} ]

\* C4: for every ordered pair (S, T) of the ten statuses,
\* is_transition_allowed(S, T) holds exactly when S = T or T is in the set
\* the documented rule table maps from S; so it holds for every (S, S), the
\* terminal statuses included, and fails for every (S, T) with S terminal
\* and T different from S; a request the executor rejected asked for a pair
\* outside the table.
C4_RuleTable ==
    /\ Cardinality(LeadStatus) = 10
    /\ \A S \in LeadStatus, T \in LeadStatus :
          is_transition_allowed(S, T) <=> (S = T \/ T \in DocumentedTargets[S])
    /\ \A S \in LeadStatus : is_transition_allowed(S, S)
    /\ \A S \in Terminal : \A T \in LeadStatus \ {S} : ~is_transition_allowed(S, T)
    /\ (last.err = "InvalidTransition" /\ last.lead \in DOMAIN db.leads) =>
          /\ last.to # db.leads[last.lead].current_status
          /\ last.to \notin DocumentedTargets[db.leads[last.lead].current_status]

\* The executor has consulted the table both ways: a lead reached
\* CONTACT_ESTABLISHED through an allowed transition and was then refused
\* the skip to SECOND_APPT_SCHEDULED.
C4_Witness ==
    /\ last.err = "InvalidTransition"
    /\ last.to = SECOND_APPT_SCHEDULED
    /\ last.lead \in DOMAIN db.leads
    /\ db.leads[last.lead].current_status = CONTACT_ESTABLISHED

\* C5: once a lead is CLOSED_WON or CLOSED_LOST, no request changes its
\* current_status again; the only transition that still succeeds is the
\* self-transition.
C5_ClosedStaysClosed ==
    [][ \A l \in DOMAIN db.leads \cap DOMAIN db'.leads :
          db.leads[l].current_status \in Terminal =>
              /\ db'.leads[l].current_status = db.leads[l].current_status
              /\ \A i \in DOMAIN db'.history :
                    (i > Len(db.history) /\ db'.history[i].lead_id = l) =>
                        /\ db'.history[i].from_status = db.leads[l].current_status
                        /\ db'.history[i].to_status = db.leads[l].current_status ]_vars

\* A lead walked to CLOSED_WON and the request to turn it into CLOSED_LOST
\* was rejected.
C5_Witness ==
    /\ last.err = "InvalidTransition"
    /\ last.to = CLOSED_LOST
    /\ last.lead \in DOMAIN db.leads
    /\ db.leads[last.lead].current_status = CLOSED_WON

\* Position of the first entry of ledger L that enters status st (0: none).
FirstReached(L, st) ==
    IF \E i \in DOMAIN L : L[i].to_status = st
    THEN CHOOSE i \in DOMAIN L :
            /\ L[i].to_status = st
            /\ \A j \in DOMAIN L : L[j].to_status = st => i <= j
    ELSE 0

\* C6: a lead that starts at NEW_COLD cannot skip stages:
\* SECOND_APPT_SCHEDULED is entered only from FIRST_APPT_COMPLETED and
\* CLOSED_WON only from SECOND_APPT_COMPLETED, and a ledger with an entry to
\* CLOSED_WON has before it entries to CONTACT_ESTABLISHED,
\* FIRST_APPT_SCHEDULED, FIRST_APPT_COMPLETED, SECOND_APPT_SCHEDULED and
\* SECOND_APPT_COMPLETED, first reached in that order.
C6_NoStageSkipped ==
    \A l \in DOMAIN db.leads :
        LET L == Ledger(db, l)
        IN  /\ \A i \in DOMAIN L :
                  /\ (L[i].to_status = SECOND_APPT_SCHEDULED /\ L[i].from_status # L[i].to_status)
                        => L[i].from_status = FIRST_APPT_COMPLETED
                  /\ (L[i].to_status = CLOSED_WON /\ L[i].from_status # L[i].to_status)
                        => L[i].from_status = SECOND_APPT_COMPLETED
            /\ FirstReached(L, CLOSED_WON) # 0 =>
                  /\ 0 < FirstReached(L, CONTACT_ESTABLISHED)
                  /\ FirstReached(L, CONTACT_ESTABLISHED) < FirstReached(L, FIRST_APPT_SCHEDULED)
                  /\ FirstReached(L, FIRST_APPT_SCHEDULED) < FirstReached(L, FIRST_APPT_COMPLETED)
                  /\ FirstReached(L, FIRST_APPT_COMPLETED) < FirstReached(L, SECOND_APPT_SCHEDULED)
                  /\ FirstReached(L, SECOND_APPT_SCHEDULED) < FirstReached(L, SECOND_APPT_COMPLETED)
                  /\ FirstReached(L, SECOND_APPT_COMPLETED) < FirstReached(L, CLOSED_WON)

\* A ledger that starts at NEW_COLD and contains an entry to CLOSED_WON.
C6_Witness ==
    \E l \in DOMAIN db.leads :
        LET L == Ledger(db, l)
        IN  /\ L # << >>
            /\ L[1].from_status = NEW_COLD /\ L[1].to_status = NEW_COLD
            /\ FirstReached(L, CLOSED_WON) # 0
            /\ db.leads[l].current_status = CLOSED_WON

\* C7: the history append and the lead update of one transition persist as
\* one unit: when a request that called the executor has finished,
\* committed or rolled back after a validation or storage failure, either
\* the database has the new history row and the lead's new status fields,
\* or it has neither.
C7_AppendAndUpdateAtomic ==
    [][ (last'.to # NoStatus /\ last'.lead \in DOMAIN db.leads) =>
          LET l == last'.lead
              n == Len(db.history)
          IN  \/ /\ db'.history = db.history
                 /\ db'.leads = db.leads
              \/ /\ Len(db'.history) = n + 1
                 /\ SubSeq(db'.history, 1, n) = db.history
                 /\ db'.history[n + 1].lead_id = l
                 /\ db'.history[n + 1].to_status = last'.to
                 /\ DOMAIN db'.leads = DOMAIN db.leads
                 /\ \A m \in DOMAIN db.leads \ {l} : db'.leads[m] = db.leads[m]
                 /\ db'.leads[l].current_status = last'.to
                 /\ db'.leads[l].last_activity_at = db'.history[n + 1].changed_at ]_vars

\* A request failed in storage after its history row was flushed, and was
\* rolled back: the session had the row, the database does not.
C7_Witness ==
    /\ last.err = "StorageError"
    /\ last.to # NoStatus
    /\ Len(sess.history) = Len(db.history) + 1
    /\ sess.leads # db.leads

\* C8: the ledger is append-only: no operation modifies a persisted history
\* entry, or deletes it while its parent lead still exists.
C8_LedgerAppendOnly ==
    [][ \A i \in DOMAIN db.history :
          db.history[i].lead_id \in DOMAIN db'.leads =>
              \E j \in DOMAIN db'.history : db'.history[j] = db.history[i] ]_vars

\* C9: every lead is created with current_status NEW_COLD and one bootstrap
\* history entry NEW_COLD -> NEW_COLD; no lead exists whose ledger is empty.
C9_EveryLeadHasBootstrapEntry ==
    \A l \in DOMAIN db.leads :
        LET L == Ledger(db, l)
        IN  /\ L # << >>
            /\ L[1].from_status = NEW_COLD
            /\ L[1].to_status = NEW_COLD

\* C10: every caller of the executor answers an illegal transition with
\* HTTP 400, never with a server error.
C10_IllegalTransitionIsBadRequest ==
    last.err = "InvalidTransition" => last.code = 400

\* C11: the failure the executor produces for an illegal request carries the
\* from status (the lead's current status) and the requested to status, as
\* in "Transition contact_established -> closed_won not allowed".
C11_ErrorCarriesFromAndTo ==
    (last.err = "InvalidTransition" /\ last.lead \in DOMAIN db.leads) =>
        /\ Len(last.detail) = 5
        /\ last.detail[2] = db.leads[last.lead].current_status
        /\ last.detail[4] = last.to

\* CLOSED_WON was requested for a lead at CONTACT_ESTABLISHED: the error
\* reads from contact_established to closed_won.
C11_Witness ==
    /\ last.err = "InvalidTransition"
    /\ last.detail = <<"Transition", CONTACT_ESTABLISHED, "->", CLOSED_WON, "not allowed">>
    /\ last.lead \in DOMAIN db.leads
    /\ db.leads[last.lead].current_status = CONTACT_ESTABLISHED

\* C13: a self-transition (the requested status is the lead's current
\* status) succeeds for every status, appends one history entry, sets
\* last_activity_at to the entry's effective time and leaves current_status
\* and status_updated_at as they were; status_updated_at changes only when
\* the status changes.
C13_SelfTransitionFrame ==
    [][ \A l \in DOMAIN db.leads :
          /\ (last'.lead = l /\ last'.to = db.leads[l].current_status) => last'.err = "none"
          /\ (Applied /\ last'.lead = l /\ last'.to = db.leads[l].current_status) =>
                /\ Len(db'.history) = Len(db.history) + 1
                /\ db'.history[Len(db'.history)].lead_id = l
                /\ db'.history[Len(db'.history)].from_status = db'.history[Len(db'.history)].to_status
                /\ db'.leads[l].last_activity_at = db'.history[Len(db'.history)].changed_at
                /\ db'.leads[l].current_status = db.leads[l].current_status
                /\ db'.leads[l].status_updated_at = db.leads[l].status_updated_at
          /\ (l \in DOMAIN db'.leads
                /\ db'.leads[l].status_updated_at # db.leads[l].status_updated_at) =>
                db'.leads[l].current_status # db.leads[l].current_status ]_vars

\* A closed lead took a self-transition at another time than the one it was
\* closed at: the entry CLOSED_LOST -> CLOSED_LOST is there, last_activity_at
\* is its time and status_updated_at still the time of the closing.
C13_Witness ==
    /\ last.op = "apply_status_transition"
    /\ last.err = "none"
    /\ last.to = CLOSED_LOST
    /\ LET L == Ledger(db, last.lead)
           row == L[Len(L)]
       IN  /\ Len(L) = 3
           /\ row.from_status = CLOSED_LOST /\ row.to_status = CLOSED_LOST
           /\ L[2].to_status = CLOSED_LOST
           /\ db.leads[last.lead].status_updated_at = L[2].changed_at
           /\ db.leads[last.lead].last_activity_at = row.changed_at
           /\ row.changed_at # L[2].changed_at

\* C14: the executor stamps the new entry's changed_at, the lead's
\* last_activity_at and, on a status change, status_updated_at with the
\* supplied effective time if one is given and with the current time
\* otherwise, and has no temporal-ordering precondition: every transition the
\* rule table allows succeeds, whatever its effective time (earlier than the
\* lead's created_at or than the previous entry's changed_at included).
C14_EffectiveTimeUnchecked ==
    [][ last'.op = "apply_status_transition" =>
          LET l == last'.lead
              effective_time == IF last'.at # NoTime THEN last'.at ELSE now
              row == db'.history[Len(db'.history)]
          IN  /\ is_transition_allowed(db.leads[l].current_status, last'.to) => last'.err = "none"
              /\ Applied =>
                    /\ row.lead_id = l
                    /\ row.changed_at = effective_time
                    /\ db'.leads[l].last_activity_at = effective_time
                    /\ db.leads[l].current_status # last'.to =>
                          db'.leads[l].status_updated_at = effective_time ]_vars

\* A transition was recorded as of a time before the lead was created and
\* before the time of the previous entry.
C14_Witness ==
    /\ last.op = "apply_status_transition"
    /\ last.err = "none"
    /\ last.at # NoTime
    /\ last.at < db.leads[last.lead].created_at
    /\ LET L == Ledger(db, last.lead)
       IN  /\ Len(L) >= 2
           /\ L[Len(L)].changed_at = last.at
           /\ L[Len(L)].changed_at < L[Len(L) - 1].changed_at
           /\ L[Len(L)].from_status # L[Len(L)].to_status
           /\ db.leads[last.lead].status_updated_at = last.at

\* The target status the specification maps an event to (NoStatus: the
\* mapping is not part of the statement).
MappedTarget(e) ==
    IF e.kind = "call" /\ e.result = "answered" THEN CONTACT_ESTABLISHED
    ELSE IF e.kind = "appointment" /\ e.type = "first" /\ e.result = "set"
         THEN FIRST_APPT_SCHEDULED
    ELSE IF e.kind = "appointment" /\ e.type = "first" /\ e.result = "completed"
         THEN FIRST_APPT_COMPLETED
    ELSE IF e.kind = "appointment" /\ e.type = "second" /\ e.result = "set"
         THEN SECOND_APPT_SCHEDULED
    ELSE IF e.kind = "appointment" /\ e.type = "second" /\ e.result = "completed"
         THEN SECOND_APPT_COMPLETED
    ELSE IF e.kind = "closing" THEN CLOSED_WON
    ELSE NoStatus

\* C15: each event recorded for a lead requests exactly its mapped target
\* status (answered call: CONTACT_ESTABLISHED; first appointment set /
\* completed: FIRST_APPT_SCHEDULED / FIRST_APPT_COMPLETED; second
\* appointment set / completed: SECOND_APPT_SCHEDULED /
\* SECOND_APPT_COMPLETED; closing: CLOSED_WON): once the event is recorded,
\* current_status is the mapped status and the lead's history has grown by
\* exactly one entry, which leads to that status.
C15_EventsRequestMappedStatus ==
    [][ Len(db'.events) = Len(db.events) + 1 =>
          LET e == db'.events[Len(db'.events)]
              l == e.lead_id
              L == Ledger(db', l)
          IN  (l # NoLead /\ MappedTarget(e) # NoStatus) =>
                /\ last'.to = MappedTarget(e)
                /\ db'.leads[l].current_status = MappedTarget(e)
                /\ Len(L) = Len(Ledger(db, l)) + 1
                /\ L[Len(L)].to_status = MappedTarget(e)
                /\ L[Len(L)].from_status = db.leads[l].current_status ]_vars

\* The main path: answered call, first appointment set and completed, second
\* appointment set and completed, closing, each recorded for the lead
\* created at NEW_COLD, have moved it through the six statuses in order.
C15_Witness ==
    /\ Len(db.events) = 6
    /\ [i \in 1..6 |-> MappedTarget(db.events[i])] =
          <<CONTACT_ESTABLISHED, FIRST_APPT_SCHEDULED, FIRST_APPT_COMPLETED,
            SECOND_APPT_SCHEDULED, SECOND_APPT_COMPLETED, CLOSED_WON>>
    /\ \A i \in 1..6 : db.events[i].lead_id = 1
    /\ [i \in 1..7 |-> Ledger(db, 1)[i].to_status] =
          <<NEW_COLD, CONTACT_ESTABLISHED, FIRST_APPT_SCHEDULED, FIRST_APPT_COMPLETED,
            SECOND_APPT_SCHEDULED, SECOND_APPT_COMPLETED, CLOSED_WON>>
    /\ Len(Ledger(db, 1)) = 7
    /\ db.leads[1].current_status = CLOSED_WON

\* The statuses of the main path, in order.
MainPath ==
    << NEW_COLD, CONTACT_ESTABLISHED, FIRST_APPT_SCHEDULED, FIRST_APPT_COMPLETED,
       SECOND_APPT_SCHEDULED, SECOND_APPT_COMPLETED, CLOSED_WON >>

\* The to_status values of the history rows of a lead, in ledger order.
RECURSIVE StatusesOf(_, _)
StatusesOf(history, lead_id) ==
    IF history = << >> THEN << >>
    ELSE IF Head(history).lead_id = lead_id
         THEN <<Head(history).to_status>> \o StatusesOf(Tail(history), lead_id)
         ELSE StatusesOf(Tail(history), lead_id)

\* The lead was created at NEW_COLD and driven along the main path to
\* CLOSED_WON (where it may have been confirmed again), all inside the window.
WalkedMainPath(lead_id, start, end) ==
    LET statuses == StatusesOf(db.history, lead_id)
    IN  /\ InRange(db.leads[lead_id].created_at, start, end)
        /\ Len(statuses) >= Len(MainPath)
        /\ SubSeq(statuses, 1, Len(MainPath)) = MainPath
        /\ \A i \in Len(MainPath)..Len(statuses) : statuses[i] = CLOSED_WON
        /\ \A i \in DOMAIN db.history :
              db.history[i].lead_id = lead_id => InRange(db.history[i].changed_at, start, end)

\* The query answered last was a funnel query for a team whose only lead
\* walked the main path inside the window.
JourneyQueried ==
    /\ kpi.op = "calculate_funnel_kpis"
    /\ kpi.user_id = NoUser
    /\ kpi.team_id # NoTeam
    /\ \E l \in DOMAIN db.leads :
          /\ lead_scope_filter(db, NoUser, kpi.team_id) = {l}
          /\ WalkedMainPath(l, kpi.start, kpi.end)

\* C16: a funnel query for the team of a single lead that was created at
\* NEW_COLD and driven along the main path to CLOSED_WON inside the window
\* reports statusCounts[closed_won] = 1 and conversions.closingRate = 1.0.
C16_JourneyClosedWon ==
    JourneyQueried =>
        /\ CLOSED_WON \in DOMAIN kpi.result.statusCounts
        /\ kpi.result.statusCounts[CLOSED_WON] = 1
        /\ kpi.result.conversions.closingRate = [num |-> 1, den |-> 1]

C16_Witness ==
    /\ JourneyQueried
    /\ kpi.result.leadsCreated = 1
    /\ Len(StatusesOf(db.history, 1)) > Len(MainPath)

\* The leads of the scope with at least one history row to the status inside
\* the window, whenever the lead was created.
LeadsEntered(user_id, team_id, start, end, st) ==
    { l \in lead_scope_filter(db, user_id, team_id) :
        \E i \in DOMAIN db.history :
            /\ db.history[i].lead_id = l
            /\ db.history[i].to_status = st
            /\ InRange(db.history[i].changed_at, start, end) }

\* C17: for every status, scope and window, statusCounts[s] is the number of
\* distinct leads in scope with at least one history row to s inside the
\* window, regardless of when the lead was created (a status without key
\* counting as 0).
C17_StatusCountsDistinctLeadsInScope ==
    kpi.op = "calculate_funnel_kpis" =>
        \A st \in LeadStatus :
            get(kpi.result.statusCounts, st)
                = Cardinality(LeadsEntered(kpi.user_id, kpi.team_id, kpi.start, kpi.end, st))

\* The statusCounts value of a status in the answer, 0 without key.
count(st) == get(kpi.result.statusCounts, st)

\* The rate is the ratio of the two counts, where the ratio exists.
IsRatio(rate, numerator, denominator) ==
    denominator > 0 =>
        /\ rate.num * denominator = numerator * rate.den
        /\ rate.den > 0

\* C18: each of the six conversions returned by calculate_funnel_kpis is the
\* ratio of its pair of counts: contactRate = CONTACT_ESTABLISHED /
\* leadsCreated, firstApptRate = FIRST_APPT_SCHEDULED / CONTACT_ESTABLISHED,
\* firstApptShowRate = FIRST_APPT_COMPLETED / FIRST_APPT_SCHEDULED,
\* secondApptRate = SECOND_APPT_SCHEDULED / FIRST_APPT_COMPLETED,
\* secondApptShowRate = SECOND_APPT_COMPLETED / SECOND_APPT_SCHEDULED,
\* closingRate = CLOSED_WON / SECOND_APPT_COMPLETED, each count being the
\* statusCounts value of the status.
C18_ConversionsAreRatios ==
    kpi.op = "calculate_funnel_kpis" /\ DOMAIN kpi.result.conversions # {} =>
        LET c == kpi.result.conversions
        IN  /\ DOMAIN c = { "contactRate", "firstApptRate", "firstApptShowRate",
                            "secondApptRate", "secondApptShowRate", "closingRate" }
            /\ IsRatio(c.contactRate, count(CONTACT_ESTABLISHED), kpi.result.leadsCreated)
            /\ IsRatio(c.firstApptRate, count(FIRST_APPT_SCHEDULED), count(CONTACT_ESTABLISHED))
            /\ IsRatio(c.firstApptShowRate, count(FIRST_APPT_COMPLETED),
                       count(FIRST_APPT_SCHEDULED))
            /\ IsRatio(c.secondApptRate, count(SECOND_APPT_SCHEDULED),
                       count(FIRST_APPT_COMPLETED))
            /\ IsRatio(c.secondApptShowRate, count(SECOND_APPT_COMPLETED),
                       count(SECOND_APPT_SCHEDULED))
            /\ IsRatio(c.closingRate, count(CLOSED_WON), count(SECOND_APPT_COMPLETED))

\* Two leads created in the window, one of them contacted and given a first
\* appointment.
C18_Witness ==
    /\ kpi.op = "calculate_funnel_kpis"
    /\ DOMAIN kpi.result.conversions # {}
    /\ kpi.result.leadsCreated = 2
    /\ kpi.result.conversions.contactRate = [num |-> 1, den |-> 2]
    /\ kpi.result.conversions.firstApptRate = [num |-> 1, den |-> 1]

\* The rate is 0 if its denominator is 0.
ZeroOnZero(rate, denominator) == denominator = 0 => rate = Zero

\* The rates of a funnel answer that has them, each with its denominator.
FunnelRatesZeroOnZero ==
    LET c == kpi.result.conversions
        o == kpi.result.dropOffs
    IN  /\ ZeroOnZero(c.contactRate, kpi.result.leadsCreated)
        /\ ZeroOnZero(c.firstApptRate, count(CONTACT_ESTABLISHED))
        /\ ZeroOnZero(c.firstApptShowRate, count(FIRST_APPT_SCHEDULED))
        /\ ZeroOnZero(c.secondApptRate, count(FIRST_APPT_COMPLETED))
        /\ ZeroOnZero(c.secondApptShowRate, count(SECOND_APPT_SCHEDULED))
        /\ ZeroOnZero(c.closingRate, count(SECOND_APPT_COMPLETED))
        /\ ZeroOnZero(o.callDeclineRate, count(NEW_COLD))
        /\ ZeroOnZero(o.firstApptDeclineRate, count(FIRST_APPT_SCHEDULED))
        /\ ZeroOnZero(o.secondApptDeclineRate, count(SECOND_APPT_SCHEDULED))
        /\ ZeroOnZero(o.noShowRateFirst, count(FIRST_APPT_SCHEDULED))
        /\ ZeroOnZero(o.noShowRateSecond, count(SECOND_APPT_SCHEDULED))
        /\ ZeroOnZero(o.rescheduleRateFirst, count(FIRST_APPT_SCHEDULED))
        /\ ZeroOnZero(o.rescheduleRateSecond, count(SECOND_APPT_SCHEDULED))

UserRatesZeroOnZero ==
    LET r == kpi.result
    IN  /\ ZeroOnZero(r.pickupRate, r.callsMade)
        /\ ZeroOnZero(r.firstApptRate, r.callsAnswered)
        /\ ZeroOnZero(r.secondApptRate, r.firstAppointmentsSet)
        /\ ZeroOnZero(r.avgUnitsPerClosing, r.closings)

\* C19: every rate the KPI services compute (the funnel conversions and
\* dropOffs, the user KPI rates pickupRate, firstApptRate, secondApptRate
\* and avgUnitsPerClosing) is 0 whenever its denominator count is 0; the
\* query is answered, never failed.
C19_RatesZeroOnZeroDenominator ==
    /\ kpi.op = "calculate_funnel_kpis" /\ DOMAIN kpi.result.conversions # {}
          => FunnelRatesZeroOnZero /\ last.err = "none"
    /\ kpi.op = "calculate_user_kpis" => UserRatesZeroOnZero /\ last.err = "none"

\* A funnel answer whose window holds the completion of the first
\* appointment but not its scheduling: a numerator of 1 over a denominator
\* of 0.
C19_Witness ==
    /\ kpi.op = "calculate_funnel_kpis"
    /\ DOMAIN kpi.result.conversions # {}
    /\ count(FIRST_APPT_COMPLETED) = 1
    /\ count(FIRST_APPT_SCHEDULED) = 0
    /\ kpi.result.conversions.firstApptShowRate = Zero

ConversionKeys ==
    { "contactRate", "firstApptRate", "firstApptShowRate", "secondApptRate",
      "secondApptShowRate", "closingRate" }

DropOffKeys ==
    { "callDeclineRate", "firstApptDeclineRate", "secondApptDeclineRate", "noShowRateFirst",
      "noShowRateSecond", "rescheduleRateFirst", "rescheduleRateSecond" }

\* The funnel query answered last had no lead in scope, or none created
\* inside the window.
NoLeadInScopeAndWindow ==
    /\ kpi.op = "calculate_funnel_kpis"
    /\ \A l \in lead_scope_filter(db, kpi.user_id, kpi.team_id) :
          ~InRange(db.leads[l].created_at, kpi.start, kpi.end)

\* C20 as stated: with no lead in scope, or none created inside the window,
\* calculate_funnel_kpis returns without error a result in which every rate
\* field (the six conversions, every dropOff rate) is present with value 0.0.
C20_RateFieldsPresentAndZero ==
    NoLeadInScopeAndWindow =>
        /\ last.err = "none"
        /\ \A k \in ConversionKeys :
              k \in DOMAIN kpi.result.conversions /\ kpi.result.conversions[k] = Zero
        /\ \A k \in DropOffKeys :
              k \in DOMAIN kpi.result.dropOffs /\ kpi.result.dropOffs[k] = Zero

\* C20 amended: with no lead in scope, or none created inside the window,
\* calculate_funnel_kpis returns without error leadsCreated = 0 and empty
\* statusCounts, conversions and dropOffs: no rate field is present.
C20_EmptyResult ==
    NoLeadInScopeAndWindow =>
        /\ last.err = "none"
        /\ kpi.result.leadsCreated = 0
        /\ DOMAIN kpi.result.statusCounts = {}
        /\ DOMAIN kpi.result.conversions = {}
        /\ DOMAIN kpi.result.dropOffs = {}

\* A scope with a lead, queried over a window that starts after the lead
\* was created and holds one of its history rows.
C20_Witness ==
    /\ NoLeadInScopeAndWindow
    /\ lead_scope_filter(db, kpi.user_id, kpi.team_id) # {}
    /\ \E i \in DOMAIN db.history : InRange(db.history[i].changed_at, kpi.start, kpi.end)
    /\ DOMAIN kpi.result.conversions = {}

\* The history row a step appended, if it appended one.
Appended == Len(db'.history) = Len(db.history) + 1

\* C12: transitions on one lead are not guarded at the application level.
\* A request that commits was validated against the current_status it read
\* when it loaded the lead, whatever was committed since: its history row
\* carries that status as from_status, and the lead row takes the status it
\* wrote.
C12_ValidatedAgainstPreReadStatus ==
    [][ \A q \in BagToSet(txn) :
            txn' = txn (-) SetToBag({q}) /\ Appended =>
                LET row == db'.history[Len(db'.history)]
                    read == q.lead.current_status
                IN  /\ is_transition_allowed(read, q.toStatus)
                    /\ row.lead_id = q.lead_id
                    /\ row.from_status = read
                    /\ row.to_status = q.toStatus
                    /\ q.toStatus # read
                          => db'.leads[q.lead_id].current_status = q.toStatus ]_vars

\* Two requests validated against the same pre-read status and both
\* committed: the last two history rows of the lead carry the same
\* from_status, the second transition is not allowed from the status the
\* first one committed, and the lead holds the status of the later committer.
C12_Witness ==
    /\ txn = EmptyBag
    /\ Len(db.history) >= 3
    /\ LET n == Len(db.history)
           first == db.history[n - 1]
           second == db.history[n]
       IN  /\ first.lead_id = second.lead_id
           /\ first.from_status = second.from_status
           /\ first.to_status # first.from_status
           /\ second.to_status # second.from_status
           /\ ~is_transition_allowed(first.to_status, second.to_status)
           /\ db.leads[second.lead_id].current_status = second.to_status

\* Row b is the entry appended to the ledger of the lead of row a just after
\* a, and carries an earlier changed_at: the elapsed time from a to b is
\* negative.
NegativePair(a, b) ==
    /\ a \in DOMAIN db.history /\ b \in DOMAIN db.history
    /\ a < b
    /\ db.history[a].lead_id = db.history[b].lead_id
    /\ \A c \in (a + 1)..(b - 1) : db.history[c].lead_id # db.history[a].lead_id
    /\ db.history[b].changed_at < db.history[a].changed_at

\* The leads the time metrics answered last were computed over.
MeasuredLeads ==
    { l \in lead_scope_filter(db, kpi.user_id, kpi.team_id) :
        InRange(db.leads[l].created_at, kpi.start, kpi.end) }

\* C21: no negative duration is averaged, and a pair of entries whose
\* elapsed time is negative (a future-dated scheduling entry immediately
\* followed by an entry with an earlier changed_at) contributes to no
\* average, neither to a named interval nor to an avg_time_in_status metric.
C21_NegativePairContributesNothing ==
    kpi.op = "calculate_time_metrics" =>
        /\ \A v \in time_in_status(db, MeasuredLeads, kpi.histories) :
              v.value >= 0 /\ ~NegativePair(v.from, v.to) /\ ~NegativePair(v.to, v.from)
        /\ \A v \in time_between_statuses(db, MeasuredLeads, kpi.histories,
                                          FIRST_APPT_COMPLETED, SECOND_APPT_SCHEDULED)
                    \cup time_between_statuses(db, MeasuredLeads, kpi.histories,
                                               SECOND_APPT_COMPLETED, CLOSED_WON) :
              v.value >= 0 /\ ~NegativePair(v.from, v.to) /\ ~NegativePair(v.to, v.from)

\* The store with the status columns of every lead replaced.
WithStatusColumns(columns) ==
    [ db EXCEPT !.leads =
        [ l \in DOMAIN db.leads |->
            [ db.leads[l] EXCEPT !.current_status = columns[l].current_status,
                                 !.status_updated_at = columns[l].at,
                                 !.last_activity_at = columns[l].at ] ] ]

\* The stores that agree with the database on every lead's owner, team,
\* created_at and history rows, and differ in the status columns.
StoresWithSameLedger ==
    { WithStatusColumns(columns) :
        columns \in [ DOMAIN db.leads ->
                        [ current_status : LeadStatus, at : {NoTime, MaxTime} ] ] }

\* C22: the result of calculate_funnel_kpis is determined by the history
\* ledger and the leads' scope and creation timestamps: a store that agrees
\* on these and differs in the leads' current_status, status_updated_at or
\* last_activity_at yields the same result, for every scope and window.
C22_ResultReadsLedgerOnly ==
    /\ kpi.op = "calculate_funnel_kpis" =>
          \A other \in StoresWithSameLedger :
              calculate_funnel_kpis(other, kpi.user_id, kpi.team_id, kpi.start, kpi.end)
                  = kpi.result
    /\ kpi.op = "calculate_time_metrics" =>
          \A other \in StoresWithSameLedger :
              funnel_time_metrics(other, kpi.user_id, kpi.team_id, kpi.start, kpi.end,
                                  kpi.histories)
                  = kpi.result

\* A funnel answer with a count for a status the lead has left since.
C22_Witness ==
    /\ kpi.op = "calculate_funnel_kpis"
    /\ kpi.result.leadsCreated = 1
    /\ \E l \in DOMAIN db.leads :
          /\ db.leads[l].current_status = FIRST_APPT_SCHEDULED
          /\ CONTACT_ESTABLISHED \in DOMAIN kpi.result.statusCounts
          /\ kpi.result.statusCounts[CONTACT_ESTABLISHED] = 1

\* The values of meta.scheduled_for the status PATCH does not accept: none,
\* no ISO timestamp, a time in the past.
RejectedScheduledFor == {NoTime, InvalidIso} \cup { t \in Times : t < now }

\* C23: a status PATCH to CALL_SCHEDULED, FIRST_APPT_SCHEDULED or
\* SECOND_APPT_SCHEDULED is rejected with HTTP 400 when meta.scheduled_for is
\* missing, is no valid ISO timestamp or lies in the past, and the rejected
\* request leaves the lead's status fields, its history and the appointment
\* events unchanged.
C23_SchedulingNeedsScheduledFor ==
    [][ /\ \A current_user \in db.users, lead_id \in DOMAIN db.leads :
            \A toStatus \in SchedulingStatuses, scheduled_for \in RejectedScheduledFor :
                ensure_lead_access(db.leads[lead_id], current_user) =>
                    LET step == update_lead_status(db, current_user, lead_id, toStatus,
                                                   scheduled_for, NoReason, "none")
                    IN  /\ step.raised = "400"
                        /\ get_db(step, "none") = db
        /\ last'.op = "update_lead_status" /\ last'.err = "BadRequest" =>
              /\ last'.code = 400
              /\ db'.leads = db.leads
              /\ db'.history = db.history
              /\ db'.events = db.events ]_vars

\* A scheduling PATCH was rejected with 400 after the clock had advanced,
\* on a lead that had moved on from NEW_COLD.
C23_Witness ==
    /\ last.op = "update_lead_status"
    /\ last.err = "BadRequest"
    /\ last.code = 400
    /\ now > 0
    /\ Len(db.history) > 1

\* The event rows a step added to the committed events.
NewEvents == { db'.events[i] : i \in (Len(db.events) + 1)..Len(db'.events) }

\* C24: a status PATCH to FIRST_APPT_SCHEDULED or SECOND_APPT_SCHEDULED
\* persists exactly one AppointmentEvent for the lead, of type FIRST or
\* SECOND respectively and result SET, if and only if the transition is
\* applied; when the transition is illegal (or the request fails otherwise)
\* no AppointmentEvent of the request persists.
C24_AppointmentEventIffTransition ==
    [][ last'.op = "update_lead_status" =>
            LET applied == /\ last'.code = 200
                           /\ Len(db'.history) = Len(db.history) + 1
                           /\ db'.history[Len(db'.history)].to_status = last'.to
                appointment == last'.to \in {FIRST_APPT_SCHEDULED, SECOND_APPT_SCHEDULED}
            IN  /\ Len(db'.events) >= Len(db.events)
                /\ SubSeq(db'.events, 1, Len(db.events)) = db.events
                /\ applied /\ appointment =>
                      /\ Cardinality(NewEvents) = 1
                      /\ \A e \in NewEvents :
                            /\ e.kind = "appointment"
                            /\ e.lead_id = last'.lead
                            /\ e.type = IF last'.to = FIRST_APPT_SCHEDULED
                                        THEN "first" ELSE "second"
                            /\ e.result = "set"
                /\ ~(applied /\ appointment) => NewEvents = {}
                /\ last'.err = "InvalidTransition" => ~applied ]_vars

\* The PATCH to SECOND_APPT_SCHEDULED was applied: the lead has its first
\* and its second appointment set, one event each.
C24_Witness ==
    /\ last.op = "update_lead_status"
    /\ last.to = SECOND_APPT_SCHEDULED
    /\ last.code = 200
    /\ Len(db.events) = 2
    /\ db.events[1].type = "first" /\ db.events[2].type = "second"
    /\ \A i \in DOMAIN db.events : db.events[i].kind = "appointment" /\ db.events[i].result = "set"

\* The history rows of a lead, in insertion order.
RECURSIVE LedgerOf(_, _)
LedgerOf(history, lead_id) ==
    IF history = << >> THEN << >>
    ELSE IF Head(history).lead_id = lead_id
         THEN <<Head(history)>> \o LedgerOf(Tail(history), lead_id)
         ELSE LedgerOf(Tail(history), lead_id)

\* The ledger is a walk of the rule table from the creation of the lead.
ValidWalk(ledger) ==
    /\ ledger # << >>
    /\ ledger[1].from_status = NEW_COLD /\ ledger[1].to_status = NEW_COLD
    /\ \A i \in 2..Len(ledger) : ledger[i].from_status = ledger[i - 1].to_status
    /\ \A i \in DOMAIN ledger : is_transition_allowed(ledger[i].from_status, ledger[i].to_status)

\* C25: for every lead created through create_lead and changed only through
\* apply_status_transition, one request at a time, the ledger in insertion
\* order is a valid walk of the rule table: the first entry is NEW_COLD to
\* NEW_COLD, each later entry starts from the status the entry before it
\* led to, and every entry's pair of statuses is an allowed transition.
C25_LedgerIsValidWalk ==
    \A l \in DOMAIN db.leads : ValidWalk(LedgerOf(db.history, l))

\* A lead that went to CLOSED_LOST and one step on the way there.
C25_Witness ==
    \E l \in DOMAIN db.leads :
        /\ Len(LedgerOf(db.history, l)) >= 3
        /\ db.leads[l].current_status = CLOSED_LOST

\* C26: after successful apply_status_transition calls executed one at a
\* time, the lead's cached fields mirror the entry appended last, by insertion
\* order and whatever its timestamp: current_status is that entry's to_status
\* and last_activity_at is that entry's changed_at (which may lie before the
\* changed_at of the entry before it).
C26_CachedFieldsMirrorLastEntry ==
    \A l \in DOMAIN db.leads :
        LET ledger == LedgerOf(db.history, l)
        IN  ledger # << >> =>
                /\ db.leads[l].current_status = ledger[Len(ledger)].to_status
                /\ db.leads[l].last_activity_at = ledger[Len(ledger)].changed_at

\* last_activity_at moved backwards: the entry appended last carries an
\* earlier changed_at than the entry before it.
C26_Witness ==
    \E l \in DOMAIN db.leads :
        LET ledger == LedgerOf(db.history, l)
        IN  /\ Len(ledger) >= 2
            /\ ledger[Len(ledger)].changed_at < ledger[Len(ledger) - 1].changed_at
            /\ db.leads[l].last_activity_at = ledger[Len(ledger)].changed_at

\* The request left the event row flushed in its session when the executor
\* rejected the transition, and nothing of it is committed.
RolledBackAfterFlush(step) ==
    /\ step.raised = "ValueError"
    /\ Len(step.s.events) = Len(db.events) + 1
    /\ get_db(step, "none") = db

EventOps == {"create_call_event", "create_appointment_event", "create_closing_event"}

\* C27: when a call, appointment or closing event is recorded for a lead
\* and the transition it implies is illegal from the lead's current status,
\* the whole request is rolled back: no event row, no history row and no
\* audit row of the request persists, although the event row was flushed
\* before the transition was validated.
C27_IllegalEventRolledBack ==
    [][ /\ \A current_user \in db.users, leadId \in DOMAIN db.leads :
            get_accessible_lead(db, leadId, current_user) = "none" =>
                LET current == db.leads[leadId].current_status
                IN  /\ \A outcome \in CallOutcomeInputs :
                          LET tr == CallTransition(outcome, NoTime)
                          IN  tr.to # NoStatus /\ ~is_transition_allowed(current, tr.to) =>
                                  RolledBackAfterFlush(
                                      create_call_event(db, current_user, leadId, outcome,
                                                        NoTime, FALSE, "none"))
                    /\ \A type \in AppointmentType, result \in AppointmentResult :
                          ~is_transition_allowed(current, AppointmentTransition(type, result, now).to) =>
                              RolledBackAfterFlush(
                                  create_appointment_event(db, current_user, leadId, type,
                                                           result, now, "none"))
                    /\ ~is_transition_allowed(current, CLOSED_WON) =>
                          RolledBackAfterFlush(
                              create_closing_event(db, current_user, leadId, NoTime, 0, "none"))
        /\ last'.op \in EventOps /\ last'.err = "InvalidTransition" =>
              /\ db'.events = db.events
              /\ db'.history = db.history
              /\ db'.audit = db.audit
              /\ db'.leads = db.leads ]_vars

\* An event request failed on the transition it implied, on a lead that
\* had left NEW_COLD.
C27_Witness ==
    /\ last.op \in EventOps
    /\ last.err = "InvalidTransition"
    /\ last.lead \in DOMAIN db.leads
    /\ db.leads[last.lead].current_status # NEW_COLD

AtMostOne(rate) == rate.num <= rate.den

\* C28 as stated: for ledgers produced by create_lead and legal transitions,
\* every value in conversions and in dropOffs of a funnel answer is at most
\* 1, for every scope and window.
C28_RatesAtMostOne ==
    kpi.op = "calculate_funnel_kpis" =>
        /\ \A k \in DOMAIN kpi.result.conversions : AtMostOne(kpi.result.conversions[k])
        /\ \A k \in DOMAIN kpi.result.dropOffs : AtMostOne(kpi.result.dropOffs[k])

\* The statuses reachable from a set of statuses by legal transitions.
RECURSIVE ReachableFrom(_)
ReachableFrom(statuses) ==
    LET next == statuses \cup
                    { t \in LeadStatus : \E s \in statuses : is_transition_allowed(s, t) }
    IN  IF next = statuses THEN statuses ELSE ReachableFrom(next)

\* C29: every one of the ten statuses is reachable from NEW_COLD by legal
\* transitions; from every status that is not terminal, and so from the
\* status of every lead that is not closed, CLOSED_LOST is one legal
\* transition away and CLOSED_WON is reachable by some sequence of them.
C29_EveryStatusReachable ==
    /\ ReachableFrom({NEW_COLD}) = LeadStatus
    /\ Cardinality(LeadStatus) = 10
    /\ \A s \in LeadStatus \ Terminal :
          /\ is_transition_allowed(s, CLOSED_LOST)
          /\ CLOSED_WON \in ReachableFrom({s})
    /\ \A l \in DOMAIN db.leads :
          LET current == db.leads[l].current_status
          IN  /\ current \in ReachableFrom({NEW_COLD})
              /\ current \notin Terminal =>
                    /\ update_lead_status(db, db.leads[l].owner_user_id, l, CLOSED_LOST,
                                          NoTime, NoReason, "none").raised = "none"
                    /\ CLOSED_WON \in ReachableFrom({current})

\* The owner has walked a lead by legal transitions from NEW_COLD to the
\* last status before the closing.
C29_Witness ==
    \E l \in DOMAIN db.leads :
        /\ db.leads[l].current_status = SECOND_APPT_COMPLETED
        /\ last.op = "update_lead_status"
        /\ last.err = "none"

\* The actor is an admin, a teamleiter of the lead's team, or the lead's
\* owner.
MayTransition(user, lead) ==
    \/ UserRole[user] = "admin"
    \/ UserRole[user] = "teamleiter" /\ UserTeam[user] = lead.team_id
    \/ lead.owner_user_id = user

TransitionOps ==
    {"update_lead_status", "create_call_event", "create_appointment_event",
     "create_closing_event"}

\* Every request of the actor for the lead of store d, whatever it asks
\* for, is refused with 403 before anything is written.
RefusedEverywhere(d, current_user, lead_id) ==
    /\ \A toStatus \in LeadStatus :
          \A scheduled_for \in ScheduledForInputs(toStatus, Times) :
              LET step == update_lead_status(d, current_user, lead_id, toStatus,
                                             scheduled_for, NoReason, "none")
              IN  step.raised = "403" /\ step.s = d
    /\ \A outcome \in CallOutcomeInputs, nextCallAt \in {NoTime} \cup Times :
          LET step == create_call_event(d, current_user, lead_id, outcome, nextCallAt,
                                        FALSE, "none")
          IN  step.raised = "403" /\ step.s = d
    /\ \A type \in AppointmentType, result \in AppointmentResult,
          eventDatetime \in {NoTime} \cup Times :
          LET step == create_appointment_event(d, current_user, lead_id, type, result,
                                               eventDatetime, "none")
          IN  step.raised = "403" /\ step.s = d
    /\ \A eventDatetime \in {NoTime} \cup Times :
          LET step == create_closing_event(d, current_user, lead_id, eventDatetime, 0, "none")
          IN  step.raised = "403" /\ step.s = d

\* Every actor without access to a lead of store d is refused.
OthersRefused(d) ==
    \A current_user \in d.users, lead_id \in DOMAIN d.leads :
        ~MayTransition(current_user, d.leads[lead_id]) =>
            RefusedEverywhere(d, current_user, lead_id)

====
